---- MODULE Spec2Model ----
(***************************************************************************)
(* Credential lifecycle and connection pooling of mcp-server-salesforce.   *)
(*                                                                         *)
(* Three state machines share this module:                                 *)
(*   SpecFlow   the PersonalOAuthHandler (Flow State Tracker and           *)
(*              Authorization Flow Orchestrator) with the Token Store it   *)
(*              writes; SpecRestart adds process restarts, SpecCallback a  *)
(*              provider that refuses or answers in part;                  *)
(*   SpecStore  the Token Store under revocation, refresh and eviction     *)
(*              timers; SpecRefresh and SpecReload are its refresh and     *)
(*              restart views;                                             *)
(*   SpecPool   the ConnectionManager (session cache, in-flight creations, *)
(*              executeWithRetry); SpecRetry is a single caller in every   *)
(*              deployment.                                                *)
(* The repository holds several iterations of each class; which one is     *)
(* deployed is chosen in the initial state (variant, deploy).              *)
(***************************************************************************)
EXTENDS Integers, Sequences, FiniteSets, TLC

(* ------------------------------ bounds -------------------------------- *)

\* authorization attempts issued in one behaviour
MaxStates == 2

\* callback invocations in one behaviour
MaxCallbacks == 2

\* clock advances in one behaviour
MaxTicks == 2

\* process restarts in one behaviour
MaxRestarts == 1

\* concurrent callers of the ConnectionManager, one call each
MaxProcs == 2

\* clearConnection / clearAllConnections calls in one behaviour
MaxClears == 1

\* revokeUserTokens / refreshToken calls in one behaviour
MaxRequests == 2

\* direct storeToken calls in one behaviour
MaxStores == 1

(* ----------------------- program constants ---------------------------- *)

STATE_TIMEOUT_MS == 600000

TOKEN_REFRESH_BUFFER_MS == 300000

IMPLICIT_EXPIRY_MS == 7200000

\* executeWithRetry: maxRetries = 1 unless the caller says otherwise
DEFAULT_MAX_RETRIES == 1

\* createPersonalOAuthConnectionFromEnv: expiresAt of a grant that names none
DEFAULT_CACHE_EXPIRY_MS == 3600000

\* isTokenExpiredSoon: bufferMs
CACHE_BUFFER_MS == 300000

\* generateState: crypto.randomBytes(32)
STATE_BYTES == 32

(* --------------------------- JS Map helpers --------------------------- *)

EmptyMap == << >>

MapHas(m, k) == k \in DOMAIN m

MapSet(m, k, v) == [x \in (DOMAIN m) \cup {k} |-> IF x = k THEN v ELSE m[x]]

MapDelete(m, k) == [x \in (DOMAIN m) \ {k} |-> m[x]]

(* ------------------------------ state --------------------------------- *)

VARIABLES
    \* PersonalOAuthHandler
    variant,        \* "memory" | "stateless" | "file": the handler iteration deployed
    pendingStates,  \* Map state -> [timestamp, userId]
    stateFile,      \* oauth_states.json (file variant): Map state -> [timestamp, userId]
    \* TokenManager
    tokens,         \* Map userId -> TokenData
    refreshTimers,  \* Map userId -> instant at which the armed timer is due
    tokenFile,      \* tokens.json: Map userId -> TokenData
    \* environment and call frames
    now,            \* Date.now(), in ms
    ticks,          \* clock advances so far
    restarts,       \* process restarts so far
    cb,             \* callback invocations, numbered in the order they begin
    \* history (not program state)
    issued,         \* states returned by initiateAuthFlow
    swept,          \* states removed by cleanupExpiredStates
    lastIssued      \* <<state>> of the latest initiateAuthFlow, << >> before any

flowVars == <<variant, pendingStates, stateFile, tokens, refreshTimers, tokenFile,
              now, ticks, restarts, cb, issued, swept, lastIssued>>

VARIABLES
    \* ConnectionManager
    deploy,              \* the class iteration, the caller's config and the environment
    connections,         \* Map cacheKey -> session
    connectionPromises,  \* Map cacheKey -> creation (its number)
    tokenCache,          \* Map "personal_oauth_<user>" -> CachedToken (second iteration)
    creations,           \* every session construction begun so far: <<promise, ...>>
    minted,              \* access tokens the server has minted so far
    clears,              \* clearConnection / clearAllConnections calls so far
    proc                 \* callers: Procs -> frame

poolVars == <<deploy, connections, connectionPromises, tokenCache, creations, minted,
              clears, proc>>

VARIABLES
    \* callers of the Token Store and what initiateAuthFlow handed out
    rq,                  \* revokeUserTokens / refreshToken calls: Requests -> frame
    authUrl,             \* <<URL>> returned by the latest initiateAuthFlow, << >> before any
    stores,              \* direct storeToken calls so far
    eh                   \* the errorHandler call under way: its frame

storeVars == <<rq, authUrl, stores, eh>>

vars == <<flowVars, poolVars, storeVars>>

(* ------------------------- optional values ---------------------------- *)

\* A JS value that may be undefined is a set with at most one element.
None == {}

Some(v) == {v}

The(o) == CHOOSE v \in o : TRUE

(* ======================================================================= *)
(*                              Token Store                                *)
(* ======================================================================= *)

\* TokenData as far as the credential lifecycle reads it.
TokenData(at, rt, exp, uid) ==
    [accessToken |-> at, refreshToken |-> rt, expiresAt |-> exp, userId |-> uid]

\* an expiry test that still accepts a record at the very instant of its horizon
isTokenExpired_late(td, t) ==
    IF td.expiresAt = None THEN FALSE
    ELSE t > The(td.expiresAt) - TOKEN_REFRESH_BUFFER_MS

isTokenExpired(td, t) ==
    IF td.expiresAt = None THEN FALSE
    ELSE t >= The(td.expiresAt) - TOKEN_REFRESH_BUFFER_MS

\* expiresAt?.toISOString() on save, new Date(...) on load
ToISOString(exp) == IF exp = None THEN << >> ELSE <<"iso", The(exp)>>

saveTokensToFile(tk) ==
    [u \in DOMAIN tk |-> [tk[u] EXCEPT !.expiresAt = ToISOString(tk[u].expiresAt)]]

\* a reader that keeps the seconds of the instant only
FromISOString_seconds(iso) ==
    IF iso = << >> THEN None ELSE Some((iso[2] \div 1000) * 1000)

\* new Date(tokenObj.expiresAt) on load
FromISOString(iso) == IF iso = << >> THEN None ELSE Some(iso[2])

loadTokensFromFile(f) ==
    [u \in DOMAIN f |-> [f[u] EXCEPT !.expiresAt = FromISOString(f[u].expiresAt)]]

\* timers: Map userId -> [due, live]; clearTimeout leaves the handle in the map
clearTimeoutOf(tm, u) ==
    IF MapHas(tm, u) THEN [tm EXCEPT ![u].live = FALSE] ELSE tm

\* a timer set for the expiry itself, the buffer forgotten
scheduleTokenRefresh_atExpiry(tm, u, expiresAt, t) ==
    LET cleared == clearTimeoutOf(tm, u)
        refreshTime == expiresAt - t
    IN  IF refreshTime > 0
        THEN MapSet(cleared, u, [due |-> t + refreshTime, live |-> TRUE])
        ELSE cleared

scheduleTokenRefresh(tm, u, expiresAt, t) ==
    LET cleared == clearTimeoutOf(tm, u)
        refreshTime == expiresAt - t - TOKEN_REFRESH_BUFFER_MS
    IN  IF refreshTime > 0
        THEN MapSet(cleared, u, [due |-> t + refreshTime, live |-> TRUE])
        ELSE cleared

\* storeToken: the three parts of the store after the call
storeTokenTokens(tk, u, td) == MapSet(tk, u, [td EXCEPT !.userId = Some(u)])

storeTokenTimers(tm, u, td, t) ==
    IF td.expiresAt # None THEN scheduleTokenRefresh(tm, u, The(td.expiresAt), t) ELSE tm

\* a clearToken that leaves the record in place
clearTokenTokens_kept(tk, u) == tk

clearTokenTokens(tk, u) == MapDelete(tk, u)

\* a clearToken that leaves the eviction timer armed
clearTokenTimers_armed(tm, u) == tm

clearTokenTimers(tm, u) == MapDelete(tm, u)

\* a getToken that leaves expiry to the eviction timer
getToken_unchecked(tk, u, t) == IF MapHas(tk, u) THEN Some(tk[u]) ELSE None

\* getToken: the record, or None for a missing or expired one
getToken(tk, u, t) ==
    IF ~MapHas(tk, u) THEN None
    ELSE IF isTokenExpired(tk[u], t) THEN None
    ELSE Some(tk[u])

(* ======================================================================= *)
(*                    Errors and their classification                      *)
(* ======================================================================= *)

\* An error value as the classifier reads it. message is the text in fragments;
\* statusCode and status are 0, the strings "" when the property is absent.
ErrorValue(name, code, errorCode, statusCode, status, error, message) ==
    [name |-> name, code |-> code, errorCode |-> errorCode, statusCode |-> statusCode,
     status |-> status, error |-> error, message |-> message, requiresReauth |-> FALSE]

\* what jsforce and the HTTP layer raise
JsError(name, errorCode, statusCode, message) ==
    ErrorValue(name, "", errorCode, statusCode, 0, "", message)

\* new ConnectionError(message, code, requiresReauth)
ConnectionError(message, code, requiresReauth) ==
    [ErrorValue("ConnectionError", code, "", 0, 0, "", message)
       EXCEPT !.requiresReauth = requiresReauth]

\* null and undefined: the error values without properties
Null == [null |-> TRUE]

\* String.prototype.toLowerCase on the fragments that occur
ToLowerCase(x) ==
    CASE x = "Session expired" -> "session expired"
      [] x = "Authentication Failure" -> "authentication failure"
      [] x = "INVALID SESSION" -> "invalid session"
      [] x = "Session Not Found" -> "session not found"
      [] x = "OAuth" -> "oauth"
      [] x = "Timeout" -> "timeout"
      [] x = "Network" -> "network"
      [] OTHER -> x

\* message.toLowerCase().includes(phrase)
Includes(message, phrase) == \E i \in DOMAIN message : ToLowerCase(message[i]) = phrase

\* message.includes(phrase), the letters compared as they are
IncludesExact(message, phrase) == \E i \in DOMAIN message : message[i] = phrase

isTokenExpiredError_byCode(e) ==
    /\ e # Null
    /\ \/ e.errorCode \in {"INVALID_SESSION_ID", "SESSION_NOT_FOUND", "INVALID_SESSION"}
       \/ e.code \in {"TOKEN_EXPIRED", "SESSION_EXPIRED"}
       \/ e.statusCode = 401
       \/ e.status = 401
       \/ \E phrase \in {"session expired", "invalid session", "authentication failure",
                         "session not found"} : Includes(e.message, phrase)
       \/ e.name = "INVALID_SESSION_ID"

isTokenExpiredError(e) ==
    /\ e # Null
    /\ \/ e.errorCode \in {"INVALID_SESSION_ID", "SESSION_NOT_FOUND", "INVALID_SESSION"}
       \/ e.statusCode = 401
       \/ e.status = 401
       \/ \E phrase \in {"session expired", "invalid session", "authentication failure",
                         "session not found"} : Includes(e.message, phrase)
       \/ e.name = "INVALID_SESSION_ID"

\* what jsforce raises for a session the server no longer accepts
ExpiredSession ==
    JsError("INVALID_SESSION_ID", "INVALID_SESSION_ID", 0, <<"Session expired", " or invalid">>)

\* a bare HTTP 401
Unauthorized == JsError("Error", "", 401, <<"Unauthorized">>)

ServerError == JsError("Error", "SERVER_UNAVAILABLE", 503, <<"Service unavailable">>)

InvalidLogin ==
    JsError("INVALID_LOGIN", "", 0, <<"INVALID_LOGIN", ": Invalid username, password, security token">>)

MissingCredentials ==
    ConnectionError(<<"SALESFORCE_USERNAME and SALESFORCE_PASSWORD are required for Username/Password authentication">>,
                    "MISSING_CREDENTIALS", FALSE)

MissingClientCredentials ==
    ConnectionError(<<"SALESFORCE_CLIENT_ID and SALESFORCE_CLIENT_SECRET are required for OAuth 2.0 Client Credentials Flow">>,
                    "MISSING_CLIENT_CREDENTIALS", FALSE)

MissingOAuthEnvVars ==
    ConnectionError(<<"SALESFORCE_CLIENT_ID, SALESFORCE_CLIENT_SECRET, and SALESFORCE_REFRESH_TOKEN are required for personal OAuth">>,
                    "MISSING_OAUTH_ENV_VARS", FALSE)

MissingOAuthConfig ==
    ConnectionError(<<"Personal OAuth configuration required">>, "MISSING_OAUTH_CONFIG", FALSE)

MissingTokenData ==
    ConnectionError(<<"Token data required for authorization code flow">>, "MISSING_TOKEN_DATA", FALSE)

TokenExpired == ConnectionError(<<"Token is expired">>, "TOKEN_EXPIRED", TRUE)

\* handleCallback's error for a provider error: the provider's words are in the text
OAuthAuthorizationFailed(error, description) ==
    ConnectionError(<<"OAuth authorization failed: ", error, " - ", description>>,
                    "OAUTH_AUTHORIZATION_FAILED", FALSE)

\* makeTokenRequest's error for a non-200 answer of the token endpoint
TokenRequestFailed(error, description) ==
    ConnectionError(<<"Token request failed: ", error, " - ", description>>,
                    "TOKEN_REQUEST_FAILED", FALSE)

\* refreshToken's error: the cause's message behind a fixed prefix
TokenRefreshFailed(cause) == JsError("Error", "", 0, <<"Token refresh failed: ">> \o cause.message)

\* handleConnectionError's errors
SessionExpired ==
    ConnectionError(<<"Session expired", ". Please re-authenticate.">>, "SESSION_EXPIRED", TRUE)

SessionRefreshFailed ==
    ConnectionError(<<"Session expired", " and token refresh failed. Please re-authenticate.">>,
                    "TOKEN_REFRESH_FAILED", TRUE)

OAuthFailed ==
    ConnectionError(<<"OAuth", " authentication failed. Please check your credentials and re-authenticate.">>,
                    "OAUTH_ERROR", TRUE)

\* reading a property of null or undefined
TypeError == JsError("TypeError", "", 0, <<"Cannot read properties of null">>)

isOAuthError(e) ==
    /\ e # Null
    /\ \/ \E phrase \in {"oauth", "access_denied", "invalid_grant", "invalid_client"} :
             Includes(e.message, phrase)
       \/ e.error \in {"invalid_grant", "access_denied"}

\* the errorCode values shouldRetryOperation retries
retryableErrors ==
    {"NETWORK_ERROR", "TIMEOUT", "SERVER_UNAVAILABLE", "SERVICE_UNAVAILABLE", "TOO_MANY_REQUESTS"}

\* shouldRetryOperation(error), for an error that has properties
shouldRetryOperation(e) ==
    IF isTokenExpiredError(e) \/ isOAuthError(e) THEN FALSE
    ELSE IF e.name = "ValidationError" \/ e.errorCode = "VALIDATION_ERROR" THEN FALSE
    ELSE \/ e.errorCode \in retryableErrors
         \/ IncludesExact(e.message, "timeout")
         \/ IncludesExact(e.message, "network")
         \/ (e.statusCode >= 500 /\ e.statusCode < 600)

formatAuthenticationError_oauthFirst(e) ==
    IF isOAuthError(e)
    THEN <<"OAuth authentication failed. Please check your client credentials and try again.">>
    ELSE IF isTokenExpiredError(e)
    THEN <<"Your Salesforce session has expired. Please re-authenticate to continue.">>
    ELSE IF IncludesExact(e.message, "INVALID_LOGIN")
    THEN <<"Invalid username, password, or security token. Please verify your credentials.">>
    ELSE <<"Authentication failed: ">> \o (IF e.message = << >> THEN <<"Unknown error">>
                                           ELSE e.message)

\* formatAuthenticationError(error), for an error that has properties
formatAuthenticationError(e) ==
    IF isTokenExpiredError(e)
    THEN <<"Your Salesforce session has expired. Please re-authenticate to continue.">>
    ELSE IF isOAuthError(e)
    THEN <<"OAuth authentication failed. Please check your client credentials and try again.">>
    ELSE IF IncludesExact(e.message, "INVALID_LOGIN")
    THEN <<"Invalid username, password, or security token. Please verify your credentials.">>
    ELSE <<"Authentication failed: ">> \o (IF e.message = << >> THEN <<"Unknown error">>
                                           ELSE e.message)

(* ======================================================================= *)
(*                      ConnectionManager: the data                        *)
(* ======================================================================= *)

User_Password == "User_Password"

OAuth_2_0_Client_Credentials == "OAuth_2.0_Client_Credentials"

OAuth_2_0_Authorization_Code == "OAuth_2.0_Authorization_Code"

OAuth_2_0_Personal == "OAuth_2.0_Personal"

DEFAULT_USER_ID == "default_user"

\* the access token a caller hands over in config.tokenData
ConfigToken == 0

\* config.tokenData of a caller that holds a refresh token
ConfigTokenData == TokenData(ConfigToken, Some("rt"), None, None)

\* A deployment: the class iteration (cm), the config.type every caller passes
\* ("" when absent), SALESFORCE_CONNECTION_TYPE ("" when unset), whether the
\* environment variables of the mode are set, config.tokenData, and the first
\* argument every caller passes (arg: a user id, "" when omitted, or an access token).
Deployment(cm, cfgType, envType, envOk, tokenData) ==
    [cm |-> cm, cfgType |-> cfgType, envType |-> envType, envOk |-> envOk,
     tokenData |-> tokenData, arg |-> ""]

\* config.tokenData whose expiresAt is one timeout and one buffer after the start
ExpiringTokenData ==
    TokenData(ConfigToken, Some("rt"), Some(STATE_TIMEOUT_MS + TOKEN_REFRESH_BUFFER_MS), None)

\* a caller of the first iteration whose token data names that expiry
ExpiringDeployment ==
    [cm |-> 1, cfgType |-> OAuth_2_0_Authorization_Code, envType |-> "", envOk |-> TRUE,
     tokenData |-> Some(ExpiringTokenData), arg |-> ""]

\* an access token a caller passes in place of the user id
DirectToken == "00Dxx0000001gPL%21AQ4AQGk"

\* a caller of the second iteration that hands over its own access token
DirectDeployment == [Deployment(2, "", "", TRUE, None) EXCEPT !.arg = DirectToken]

\* String.prototype.length, startsWith("00D"), includes(".") and
\* decodeURIComponent(x.trim()) on the first arguments that occur
StringLength(x) == CASE x = DirectToken -> 25 [] x = DEFAULT_USER_ID -> 12 [] OTHER -> 0

StartsWith00D(x) == x = DirectToken

IncludesDot(x) == FALSE

decodeURIComponent(x) == IF x = DirectToken THEN "00Dxx0000001gPL!AQ4AQGk" ELSE x

\* isAccessToken(token)
isAccessToken(token) == StringLength(token) > 20 /\ (StartsWith00D(token) \/ IncludesDot(token))

InvalidAccessToken ==
    ConnectionError(<<"Invalid access token format provided">>, "INVALID_ACCESS_TOKEN", FALSE)

Deployments ==
    {Deployment(1, "", "", TRUE, None),
     Deployment(2, "", "", FALSE, None),
     Deployment(2, OAuth_2_0_Client_Credentials, "", TRUE, None),
     Deployment(1, OAuth_2_0_Authorization_Code, "", TRUE, Some(ConfigTokenData)),
     Deployment(2, OAuth_2_0_Personal, "", TRUE, None),
     Deployment(2, "", OAuth_2_0_Personal, TRUE, None)}

\* `${effectiveUserId}_${config?.type || ConnectionType.User_Password}`
CacheKey(userId, cfgType) ==
    <<IF userId = "" THEN DEFAULT_USER_ID ELSE userId,
      IF cfgType = "" THEN User_Password ELSE cfgType>>

\* config?.type || process.env.SALESFORCE_CONNECTION_TYPE || User_Password
ConnectionTypeOf(d) ==
    IF d.cfgType # "" THEN d.cfgType
    ELSE IF d.envType # "" THEN d.envType
    ELSE User_Password

\* a session: its access token, how the token was obtained, the creation that built it
Session(token, via, built) == [token |-> token, via |-> via, built |-> built]

\* the callers' first argument ("" is an omitted argument)
PoolUser == deploy.arg

PoolKey == CacheKey(PoolUser, deploy.cfgType)

PersonalCacheKey(userId) == <<"personal_oauth", userId>>

Procs == 1..MaxProcs

RetryBudgets == 0..DEFAULT_MAX_RETRIES

\* a createNewConnection call: the promise it returned, the external call it awaits
\* and the caller that made it (0: a call that ended before the behaviour begins);
\* for the record: whether the cache was cleared while the external call was pending
Creation(state, via, sess, err) ==
    [state |-> state, via |-> via, sess |-> sess, err |-> err, by |-> 0,
     cleared |-> FALSE]

Rejected(e) == Creation("err", "none", None, Some(e))

Pending(via) == Creation("pending", via, None, None)

Built(sess) == Creation("ok", "none", Some(sess), None)

NoOutcome == [status |-> "none", value |-> 0, error |-> None]

\* a caller: the call it made (op), where it is suspended (pc), executeWithRetry's
\* locals (attempt, maxRetries, lastError), whether it is inside the catch block's
\* refreshConnection, the creation it awaits, the session it holds and its result;
\* for the record: one log entry per concluded attempt, whether every earlier call
\* was still running when this one began (conc), and what its last probe said
IdleFrame ==
    [op |-> "idle", pc |-> "idle", attempt |-> 0, maxRetries |-> 0, inRefresh |-> FALSE,
     await |-> 0, sess |-> None, lastError |-> None, outcome |-> NoOutcome, log |-> << >>,
     conc |-> FALSE, probed |-> "no"]

\* the ConnectionManager with nobody calling
PoolIdle ==
    /\ deploy = Deployment(1, "", "", TRUE, None)
    /\ connections = EmptyMap
    /\ connectionPromises = EmptyMap
    /\ tokenCache = EmptyMap
    /\ creations = << >>
    /\ minted = 0
    /\ clears = 0
    /\ proc = [p \in Procs |-> IdleFrame]

(* ======================================================================= *)
(*        Flow State Tracker and Authorization Flow Orchestrator           *)
(* ======================================================================= *)

Variants == {"memory", "stateless", "file"}

Requests == 1..MaxRequests

\* a revokeUserTokens or refreshToken call: where it is suspended (pc), the user,
\* the record it read before its first await (td), its result (outcome) and the
\* record it returned (ret)
IdleRequest ==
    [op |-> "idle", pc |-> "idle", user |-> "", td |-> None, outcome |-> "", ret |-> None]

\* the frame of an errorHandler call on error e, before it runs
IdleHandling(e) ==
    [error |-> e, op |-> "idle", pc |-> "idle", answer |-> FALSE, text |-> << >>,
     thrown |-> Null, maxRetries |-> 0]

\* nobody is calling the Token Store and no authorization URL was handed out
CallersIdle ==
    /\ rq = [r \in Requests |-> IdleRequest]
    /\ authUrl = << >>
    /\ stores = 0

\* ... and nobody is calling the errorHandler
StoreIdle ==
    /\ CallersIdle
    /\ eh = IdleHandling(Null)

\* variants that keep pendingStates (the stateless one leaves state to the client)
Tracking == {"memory", "file"}

Calls == 1..MaxCallbacks

\* generateState(): 32 random bytes, modelled as a value never returned before
generateState(iss) == Cardinality(iss) + 1

\* a state value the handler never generated
ForgedState == MaxStates + 1

Placeholders == {"tmp"}

\* identity() answers: a failure, or the fields getUserInfo reads ("" is a missing one)
IdentityResponses ==
    {[ok |-> FALSE, user_id |-> "", username |-> "", email |-> ""],
     [ok |-> TRUE, user_id |-> "005", username |-> "alice", email |-> "a@x"]}

\* identity() answers that lack the e-mail address, or the username as well
IdentityFallbacks ==
    {[ok |-> TRUE, user_id |-> "005", username |-> "alice", email |-> ""],
     [ok |-> TRUE, user_id |-> "005", username |-> "", email |-> ""]}

\* token endpoint answers to an authorization-code grant
ExchangeResponses ==
    {[ok |-> TRUE, access_token |-> "at_code", refresh_token |-> Some("rt"),
      expires_in |-> Some(7200)],
     [ok |-> FALSE, access_token |-> "", refresh_token |-> None, expires_in |-> None]}

\* access tokens delivered in an implicit callback
ImplicitTokens == {"at_impl"}

\* the instants the clock visits: each timeout boundary, then one millisecond past it
TickStep(i) == IF i % 2 = 0 THEN STATE_TIMEOUT_MS ELSE 1

\* getUserInfo on a temporary connection (no connection.userInfo to fall back on)
getUserInfo(r) ==
    IF ~r.ok THEN None
    ELSE Some([userId   |-> r.user_id,
               username |-> r.username,
               email    |-> IF r.email = "" THEN "unknown" ELSE r.email])

generateUserId(ui) ==
    IF ui.email # "" /\ ui.email # "unknown" THEN ui.email
    ELSE IF ui.username # "" /\ ui.username # "unknown" THEN ui.username
    ELSE ui.userId

\* expires_in (seconds) to an absolute expiresAt; a falsy expires_in leaves it unset
ExpiresAtOf(expires_in, t) ==
    IF expires_in = None \/ The(expires_in) = 0 THEN None
    ELSE Some(t + The(expires_in) * 1000)

exchangeCodeForTokens(resp, t) ==
    TokenData(resp.access_token, resp.refresh_token, ExpiresAtOf(resp.expires_in, t), None)

ImplicitTokenData(at, t) == TokenData(at, None, Some(t + IMPLICIT_EXPIRY_MS), None)

\* the length of the hex string generateState returns: two digits per random byte
StateHexLength == 2 * STATE_BYTES

\* AuthParams: "" is an absent string, None an absent state
AuthParams(clientId, redirectUri, scope) ==
    [clientId |-> clientId, redirectUri |-> redirectUri, scope |-> scope, state |-> None,
     prompt |-> "", instanceUrl |-> ""]

\* what the callers of initiateAuthFlow pass: a client, its redirect URI, no scope
AuthRequests == {AuthParams("abc", "https://example.com/cb", "")}

\* URLSearchParams serialisation (application/x-www-form-urlencoded) of the values
\* that occur
FormEncode(x) ==
    CASE x = "https://example.com/cb" -> "https%3A%2F%2Fexample.com%2Fcb"
      [] x = "id api refresh_token" -> "id+api+refresh_token"
      [] OTHER -> x

\* what the receiver of the URL reads back
FormDecode(x) ==
    CASE x = "https%3A%2F%2Fexample.com%2Fcb" -> "https://example.com/cb"
      [] x = "id+api+refresh_token" -> "id api refresh_token"
      [] OTHER -> x

\* getAuthorizationUrl of the handler: the URL as origin, path and query string;
\* a parameter that is not set is None
getAuthorizationUrl(params) ==
    [origin |-> IF params.instanceUrl = "" THEN "https://login.salesforce.com"
                ELSE params.instanceUrl,
     pathname |-> "/services/oauth2/authorize",
     response_type |-> Some(FormEncode("token")),
     client_id |-> Some(FormEncode(params.clientId)),
     redirect_uri |-> Some(FormEncode(params.redirectUri)),
     scope |-> Some(FormEncode(IF params.scope = "" THEN "id api refresh_token"
                               ELSE params.scope)),
     state |-> params.state,
     prompt |-> IF params.prompt = "" THEN None ELSE Some(FormEncode(params.prompt))]

\* the states cleanupExpiredStates collects
ExpiredStates(ps, t) == {s \in DOMAIN ps : t - ps[s].timestamp > STATE_TIMEOUT_MS}

\* a sweep that compares against the wrong horizon and so removes nothing in time
cleanupExpiredStates_lax(ps, t) ==
    [s \in {x \in DOMAIN ps : t - ps[x].timestamp <= 2 * STATE_TIMEOUT_MS} |-> ps[s]]

cleanupExpiredStates(ps, t) == [s \in (DOMAIN ps) \ ExpiredStates(ps, t) |-> ps[s]]

\* this.pendingStates.delete(state) once the state matched
ConsumeState(ps, s) == MapDelete(ps, s)

\* where a callback's synchronous prefix ends
CallbackVerdict(v, ps, s, err, t) ==
    IF err THEN "OAUTH_AUTHORIZATION_FAILED"
    ELSE IF v \notin Tracking THEN "NOCHECK"
    ELSE IF ~MapHas(ps, s) THEN "INVALID_STATE"
    ELSE IF t - ps[s].timestamp > STATE_TIMEOUT_MS THEN "STATE_EXPIRED"
    ELSE "PASS"

NoToken == TokenData("", None, None, None)

\* A call frame: the arguments (kind, state, err), where the synchronous prefix
\* ended (verdict), what held when the call began (pendingAtCall, sweptAtCall,
\* overdueAtCall: pending and older than the timeout),
\* the external calls made so far (exchanged, identified) and the result.
NewFrame ==
    [pc |-> "new", kind |-> "none", state |-> ForgedState, err |-> FALSE,
     verdict |-> "", pendingAtCall |-> FALSE, sweptAtCall |-> FALSE,
     overdueAtCall |-> FALSE,
     outcome |-> "", td |-> NoToken, exchanged |-> FALSE, identified |-> FALSE,
     key |-> ""]

Begun == {c \in Calls : cb[c].pc # "new"}

Begin(c, kind, s, err, verdict) ==
    [cb[c] EXCEPT !.kind = kind, !.state = s, !.err = err, !.verdict = verdict,
                  !.pendingAtCall = MapHas(pendingStates, s),
                  !.sweptAtCall = s \in swept,
                  !.overdueAtCall = s \in ExpiredStates(pendingStates, now)]

InitFlow ==
    /\ variant \in Variants
    /\ pendingStates = EmptyMap
    /\ stateFile = EmptyMap
    /\ tokens = EmptyMap
    /\ refreshTimers = EmptyMap
    /\ tokenFile = EmptyMap
    /\ now = 0
    /\ ticks = 0
    /\ restarts = 0
    /\ cb = [c \in Calls |-> NewFrame]
    /\ issued = {}
    /\ swept = {}
    /\ lastIssued = << >>
    /\ PoolIdle
    /\ StoreIdle

Tick ==
    /\ ticks < MaxTicks
    /\ now' = now + TickStep(ticks)
    /\ ticks' = ticks + 1
    /\ UNCHANGED <<variant, pendingStates, stateFile, tokens, refreshTimers, tokenFile,
                   restarts, cb, issued, swept, lastIssued>>
    /\ UNCHANGED poolVars
    /\ UNCHANGED storeVars

initiateAuthFlow(u) ==
    /\ variant \in Tracking
    /\ Cardinality(issued) < MaxStates
    /\ LET state == generateState(issued)
           stored == MapSet(pendingStates, state, [timestamp |-> now, userId |-> u])
       IN  /\ stateFile' = IF variant = "file" THEN stored ELSE stateFile
           /\ pendingStates' = cleanupExpiredStates(stored, now)
           /\ swept' = swept \cup ExpiredStates(stored, now)
           /\ issued' = issued \cup {state}
           /\ lastIssued' = <<state>>
           /\ \E params \in AuthRequests :
                 authUrl' = <<getAuthorizationUrl([params EXCEPT !.state = Some(state)])>>
    /\ UNCHANGED <<variant, tokens, refreshTimers, tokenFile, now, ticks, restarts, cb>>
    /\ UNCHANGED poolVars
    /\ UNCHANGED <<rq, stores, eh>>

getOAuthStats ==
    /\ variant \in Tracking
    /\ pendingStates' = cleanupExpiredStates(pendingStates, now)
    /\ swept' = swept \cup ExpiredStates(pendingStates, now)
    /\ UNCHANGED <<variant, stateFile, tokens, refreshTimers, tokenFile, now, ticks, restarts, cb,
                   issued, lastIssued>>
    /\ UNCHANGED poolVars
    /\ UNCHANGED storeVars

\* handleCallback up to its first await: provider error, state validation, consumption
handleCallback(c, s, err) ==
    /\ cb[c].pc = "new"
    /\ c = Cardinality(Begun) + 1
    /\ LET verdict == CallbackVerdict(variant, pendingStates, s, err, now)
           proceeds == verdict \in {"PASS", "NOCHECK"}
       IN  /\ pendingStates' = IF verdict \in {"PASS", "STATE_EXPIRED"}
                               THEN ConsumeState(pendingStates, s)
                               ELSE pendingStates
           /\ cb' = [cb EXCEPT ![c] =
                       [Begin(c, "code", s, err, verdict) EXCEPT
                                 !.pc = IF proceeds THEN "exchange" ELSE "done",
                                 !.exchanged = proceeds,
                                 !.outcome = IF proceeds THEN "" ELSE verdict]]
    /\ UNCHANGED <<variant, stateFile, tokens, refreshTimers, tokenFile, now, ticks,
                   restarts, issued, swept, lastIssued>>
    /\ UNCHANGED poolVars
    /\ UNCHANGED storeVars

\* handleImplicitCallback up to its first await (the stateless variant takes no state)
handleImplicitCallback(c, s, at) ==
    /\ cb[c].pc = "new"
    /\ c = Cardinality(Begun) + 1
    /\ variant \in {"file", "stateless"}
    /\ variant = "stateless" => s = ForgedState
    /\ LET verdict == CallbackVerdict(variant, pendingStates, s, FALSE, now)
           proceeds == verdict \in {"PASS", "NOCHECK"}
       IN  /\ pendingStates' = IF verdict \in {"PASS", "STATE_EXPIRED"}
                               THEN ConsumeState(pendingStates, s)
                               ELSE pendingStates
           /\ stateFile' = IF verdict = "PASS" THEN pendingStates' ELSE stateFile
           /\ cb' = [cb EXCEPT ![c] =
                       [Begin(c, "implicit", s, FALSE, verdict) EXCEPT
                                 !.pc = IF proceeds THEN "identity" ELSE "done",
                                 !.identified = proceeds,
                                 !.td = IF proceeds THEN ImplicitTokenData(at, now) ELSE @,
                                 !.outcome = IF proceeds THEN "" ELSE verdict]]
    /\ UNCHANGED <<variant, tokens, refreshTimers, tokenFile, now, ticks,
                   restarts, issued, swept, lastIssued>>
    /\ UNCHANGED poolVars
    /\ UNCHANGED storeVars

\* the token endpoint answers the authorization-code grant
exchangeReturns(c, resp) ==
    /\ cb[c].pc = "exchange"
    /\ cb' = [cb EXCEPT ![c] =
                IF resp.ok
                THEN [@ EXCEPT !.pc = "identity",
                               !.td = exchangeCodeForTokens(resp, now),
                               !.identified = TRUE]
                ELSE [@ EXCEPT !.pc = "done", !.outcome = "CODE_EXCHANGE_FAILED"]]
    /\ UNCHANGED <<variant, pendingStates, stateFile, tokens, refreshTimers, tokenFile,
                   now, ticks, restarts, issued, swept, lastIssued>>
    /\ UNCHANGED poolVars
    /\ UNCHANGED storeVars

\* the key a completed callback stores the record under
StoreKey(kind, ui) == IF kind = "code" THEN generateUserId(ui) ELSE ui.userId

\* what the catch block of a callback reports
WrappedFailure(kind) ==
    IF kind = "code" THEN "CODE_EXCHANGE_FAILED" ELSE "OAUTH_CALLBACK_FAILED"

\* identity() answers; on success the record is stored and the callback returns
identityReturns(c, r) ==
    /\ cb[c].pc = "identity"
    /\ LET ui == getUserInfo(r) IN
       IF ui = None
       THEN /\ cb' = [cb EXCEPT ![c] =
                        [@ EXCEPT !.pc = "done", !.outcome = WrappedFailure(cb[c].kind)]]
            /\ UNCHANGED <<tokens, refreshTimers, tokenFile>>
       ELSE LET key == StoreKey(cb[c].kind, The(ui))
                td  == [cb[c].td EXCEPT !.userId = Some(key)]
            IN  /\ tokens' = storeTokenTokens(tokens, key, td)
                /\ refreshTimers' = storeTokenTimers(refreshTimers, key, td, now)
                /\ tokenFile' = saveTokensToFile(tokens')
                /\ cb' = [cb EXCEPT ![c] =
                            [@ EXCEPT !.pc = "done", !.outcome = "OK", !.key = key,
                                      !.td = NoToken]]
    /\ UNCHANGED <<variant, pendingStates, stateFile, now, ticks, restarts, issued,
                   swept, lastIssued>>
    /\ UNCHANGED poolVars
    /\ UNCHANGED storeVars

\* an armed eviction timer comes due: clearToken(userId)
timerFires(u) ==
    /\ MapHas(refreshTimers, u)
    /\ refreshTimers[u].live
    /\ now >= refreshTimers[u].due
    /\ tokens' = clearTokenTokens(tokens, u)
    /\ refreshTimers' = clearTokenTimers(refreshTimers, u)
    /\ tokenFile' = saveTokensToFile(tokens')
    /\ UNCHANGED <<variant, pendingStates, stateFile, now, ticks, restarts, cb, issued,
                   swept, lastIssued>>
    /\ UNCHANGED poolVars
    /\ UNCHANGED storeVars

CarriedStates == issued \cup {ForgedState}

\* the answers of a provider that grants every request
Granted(responses) == {r \in responses : r.ok}

NextFlow ==
    \/ Tick
    \/ \E u \in Placeholders : initiateAuthFlow(u)
    \/ getOAuthStats
    \/ \E c \in Calls, s \in CarriedStates, err \in BOOLEAN : handleCallback(c, s, err)
    \/ \E c \in Calls, s \in CarriedStates, at \in ImplicitTokens :
          handleImplicitCallback(c, s, at)
    \/ \E c \in Calls, resp \in Granted(ExchangeResponses) : exchangeReturns(c, resp)
    \/ \E c \in Calls, r \in Granted(IdentityResponses) : identityReturns(c, r)

\* one process lifetime of the handler
SpecFlow == InitFlow /\ [][NextFlow]_vars

\* callbacks against a provider that may refuse the code, fail the identity lookup
\* or know the user only in part
NextCallback ==
    \/ Tick
    \/ \E u \in Placeholders : initiateAuthFlow(u)
    \/ \E c \in Calls, s \in CarriedStates, err \in BOOLEAN : handleCallback(c, s, err)
    \/ \E c \in Calls, s \in CarriedStates, at \in ImplicitTokens :
          handleImplicitCallback(c, s, at)
    \/ \E c \in Calls, resp \in ExchangeResponses : exchangeReturns(c, resp)
    \/ \E c \in Calls, r \in IdentityResponses \cup IdentityFallbacks : identityReturns(c, r)

SpecCallback == InitFlow /\ [][NextCallback]_vars

\* the file variant's constructor: pendingStates is rebuilt from oauth_states.json
loadStatesFromFile(f) == f

\* The process exits and starts again: both singletons are constructed anew from
\* their files, timers and calls in flight are gone, the clock keeps running.
restart ==
    /\ restarts < MaxRestarts
    /\ restarts' = restarts + 1
    /\ pendingStates' = IF variant = "file" THEN loadStatesFromFile(stateFile) ELSE EmptyMap
    /\ tokens' = loadTokensFromFile(tokenFile)
    /\ refreshTimers' = EmptyMap
    /\ cb' = [c \in Calls |->
                IF cb[c].pc \in {"exchange", "identity"}
                THEN [cb[c] EXCEPT !.pc = "done", !.outcome = "ABORTED", !.td = NoToken]
                ELSE cb[c]]
    /\ rq' = [r \in Requests |->
                IF rq[r].pc \in {"idle", "done"} THEN rq[r]
                ELSE [rq[r] EXCEPT !.pc = "done", !.outcome = "ABORTED"]]
    /\ UNCHANGED <<variant, stateFile, tokenFile, now, ticks, issued, swept, lastIssued>>
    /\ UNCHANGED poolVars
    /\ UNCHANGED <<authUrl, stores, eh>>

NextRestart ==
    \/ NextFlow
    \/ restart

\* the handler across process restarts
SpecRestart == InitFlow /\ [][NextRestart]_vars

(* ======================================================================= *)
(*                    Token Store: revocation and refresh                  *)
(* ======================================================================= *)

StoreUsers == {"a@x"}

\* a JS value that is neither undefined nor the empty string
Truthy(o) == o # None /\ The(o) # ""

\* the records callers hand to storeToken: with and without a refresh token, with
\* no expiry or one whose buffered horizon the clock reaches
SeedRecords ==
    {TokenData("at", None, None, None),
     TokenData("at", Some("rt"), Some(STATE_TIMEOUT_MS + TOKEN_REFRESH_BUFFER_MS), None),
     TokenData("at", Some("rt"), Some(STATE_TIMEOUT_MS + TOKEN_REFRESH_BUFFER_MS + 1), None)}

\* token endpoint answers to a refresh grant: with a rotated refresh token, without
\* one, with an empty one, or a refusal (HTTP 400 invalid_grant)
GrantResponses ==
    {[ok |-> TRUE, access_token |-> "at_r", refresh_token |-> Some("rt2"),
      expires_in |-> Some(900)],
     [ok |-> TRUE, access_token |-> "at_r", refresh_token |-> None,
      expires_in |-> Some(900)],
     [ok |-> TRUE, access_token |-> "at_r", refresh_token |-> Some(""),
      expires_in |-> None],
     [ok |-> FALSE, access_token |-> "", refresh_token |-> None, expires_in |-> None]}

\* the refresh token a caller of the store-less refreshToken may hold
HeldRefreshTokens == {"", "rt", "rt2"}

\* calls made so far
Called == {r \in Requests : rq[r].op # "idle"}

\* tokenManager.storeToken(userId, tokenData)
storeToken(u, td) ==
    /\ stores < MaxStores
    /\ stores' = stores + 1
    /\ tokens' = storeTokenTokens(tokens, u, td)
    /\ refreshTimers' = storeTokenTimers(refreshTimers, u, td, now)
    /\ tokenFile' = saveTokensToFile(tokens')
    /\ UNCHANGED <<variant, pendingStates, stateFile, now, ticks, restarts, cb, issued,
                   swept, lastIssued>>
    /\ UNCHANGED poolVars
    /\ UNCHANGED <<rq, authUrl, eh>>

\* revokeUserTokens up to its first request to the revoke endpoint
revokeUserTokens(r, u) ==
    /\ rq[r].pc = "idle"
    /\ r = Cardinality(Called) + 1
    /\ LET tokenData == getToken(tokens, u, now) IN
       rq' = [rq EXCEPT ![r] =
                IF tokenData = None
                THEN [@ EXCEPT !.op = "revoke", !.user = u, !.pc = "done",
                               !.outcome = "NO_TOKENS_FOUND"]
                ELSE [@ EXCEPT !.op = "revoke", !.user = u, !.pc = "revokeAccess",
                               !.td = tokenData]]
    /\ UNCHANGED flowVars
    /\ UNCHANGED poolVars
    /\ UNCHANGED <<authUrl, stores, eh>>

\* the revoke endpoint answers (ok: HTTP 200); the access token goes first, then
\* the refresh token if the record has one; the record is cleared either way
revokeReturns(r, ok) ==
    /\ rq[r].pc \in {"revokeAccess", "revokeRefresh"}
    /\ LET u == rq[r].user
           more == ok /\ rq[r].pc = "revokeAccess" /\ Truthy(The(rq[r].td).refreshToken)
       IN  IF more
           THEN /\ rq' = [rq EXCEPT ![r].pc = "revokeRefresh"]
                /\ UNCHANGED <<tokens, refreshTimers, tokenFile>>
           ELSE /\ tokens' = clearTokenTokens(tokens, u)
                /\ refreshTimers' = clearTokenTimers(refreshTimers, u)
                /\ tokenFile' = saveTokensToFile(tokens')
                /\ rq' = [rq EXCEPT ![r] =
                            [@ EXCEPT !.pc = "done",
                                      !.outcome = IF ok THEN "OK"
                                                  ELSE "TOKEN_REVOCATION_FAILED"]]
    /\ UNCHANGED <<variant, pendingStates, stateFile, now, ticks, restarts, cb, issued,
                   swept, lastIssued>>
    /\ UNCHANGED poolVars
    /\ UNCHANGED <<authUrl, stores, eh>>

\* a refresh whose check for the refresh token sits inside the try block, so
\* that its failure also clears the record
refreshUserTokens_clearing(r, u) ==
    /\ rq[r].pc = "idle"
    /\ r = Cardinality(Called) + 1
    /\ LET currentToken == IF MapHas(tokens, u) THEN Some(tokens[u]) ELSE None
           missing == currentToken = None \/ ~Truthy(The(currentToken).refreshToken)
       IN  /\ rq' = [rq EXCEPT ![r] =
                       IF missing
                       THEN [@ EXCEPT !.op = "refresh", !.user = u, !.pc = "done",
                                      !.outcome = "TOKEN_REFRESH_FAILED"]
                       ELSE [@ EXCEPT !.op = "refresh", !.user = u, !.pc = "grant",
                                      !.td = currentToken]]
           /\ tokens' = IF missing THEN clearTokenTokens(tokens, u) ELSE tokens
           /\ refreshTimers' = IF missing THEN clearTokenTimers(refreshTimers, u)
                               ELSE refreshTimers
           /\ tokenFile' = IF missing THEN saveTokensToFile(tokens') ELSE tokenFile
    /\ UNCHANGED <<variant, pendingStates, stateFile, now, ticks, restarts, cb, issued,
                   swept, lastIssued>>
    /\ UNCHANGED poolVars
    /\ UNCHANGED <<authUrl, stores, eh>>

\* refreshUserTokens -> tokenManager.refreshToken up to the request to the token
\* endpoint: the current record is read without an expiry check
refreshUserTokens(r, u) ==
    /\ rq[r].pc = "idle"
    /\ r = Cardinality(Called) + 1
    /\ LET currentToken == IF MapHas(tokens, u) THEN Some(tokens[u]) ELSE None IN
       rq' = [rq EXCEPT ![r] =
                IF currentToken = None \/ ~Truthy(The(currentToken).refreshToken)
                THEN [@ EXCEPT !.op = "refresh", !.user = u, !.pc = "done",
                               !.outcome = "TOKEN_REFRESH_FAILED"]
                ELSE [@ EXCEPT !.op = "refresh", !.user = u, !.pc = "grant",
                               !.td = currentToken]]
    /\ UNCHANGED flowVars
    /\ UNCHANGED poolVars
    /\ UNCHANGED <<authUrl, stores, eh>>

\* the store-less refreshToken(refreshToken, ...) up to the request
refreshTokenDirect(r, rt) ==
    /\ rq[r].pc = "idle"
    /\ r = Cardinality(Called) + 1
    /\ rq' = [rq EXCEPT ![r] =
                IF rt = ""
                THEN [@ EXCEPT !.op = "direct", !.pc = "done", !.outcome = "NO_REFRESH_TOKEN"]
                ELSE [@ EXCEPT !.op = "direct", !.pc = "grant",
                               !.td = Some(TokenData("", Some(rt), None, None))]]
    /\ UNCHANGED flowVars
    /\ UNCHANGED poolVars
    /\ UNCHANGED <<authUrl, stores, eh>>

\* a getToken that drops the expired record it refuses to return
callGetToken_evicting(r, u) ==
    /\ rq[r].pc = "idle"
    /\ r = Cardinality(Called) + 1
    /\ LET tokenData == getToken(tokens, u, now)
           expired == MapHas(tokens, u) /\ tokenData = None
       IN  /\ rq' = [rq EXCEPT ![r] =
                       [@ EXCEPT !.op = "getToken", !.user = u, !.pc = "done",
                                 !.td = IF MapHas(tokens, u) THEN Some(tokens[u]) ELSE None,
                                 !.outcome = IF tokenData = None THEN "NULL" ELSE "OK",
                                 !.ret = tokenData]]
           /\ tokens' = IF expired THEN clearTokenTokens(tokens, u) ELSE tokens
           /\ refreshTimers' = IF expired THEN clearTokenTimers(refreshTimers, u)
                               ELSE refreshTimers
           /\ tokenFile' = IF expired THEN saveTokensToFile(tokens') ELSE tokenFile
    /\ UNCHANGED <<variant, pendingStates, stateFile, now, ticks, restarts, cb, issued,
                   swept, lastIssued>>
    /\ UNCHANGED poolVars
    /\ UNCHANGED <<authUrl, stores, eh>>

\* tokenManager.getToken(userId): the record, or null for a missing or expired one
callGetToken(r, u) ==
    /\ rq[r].pc = "idle"
    /\ r = Cardinality(Called) + 1
    /\ LET tokenData == getToken(tokens, u, now) IN
       rq' = [rq EXCEPT ![r] =
                [@ EXCEPT !.op = "getToken", !.user = u, !.pc = "done",
                          !.td = IF MapHas(tokens, u) THEN Some(tokens[u]) ELSE None,
                          !.outcome = IF tokenData = None THEN "NULL" ELSE "OK",
                          !.ret = tokenData]]
    /\ UNCHANGED flowVars
    /\ UNCHANGED poolVars
    /\ UNCHANGED <<authUrl, stores, eh>>

\* the users whose record isTokenExpired reports expired
ExpiredUsers(tk, t) == {u \in DOMAIN tk : isTokenExpired(tk[u], t)}

\* tokenManager.clearExpiredTokens(): clearToken for every expired record
clearExpiredTokens ==
    /\ LET expiredUsers == ExpiredUsers(tokens, now) IN
       /\ tokens' = [u \in DOMAIN tokens \ expiredUsers |-> tokens[u]]
       /\ refreshTimers' = [u \in DOMAIN refreshTimers \ expiredUsers |-> refreshTimers[u]]
       /\ tokenFile' = IF expiredUsers = {} THEN tokenFile ELSE saveTokensToFile(tokens')
    /\ UNCHANGED <<variant, pendingStates, stateFile, now, ticks, restarts, cb, issued,
                   swept, lastIssued>>
    /\ UNCHANGED poolVars
    /\ UNCHANGED storeVars

\* a refresh that trusts the provider to rotate the refresh token every time
RefreshedToken_rotated(respToken, original) == respToken

\* tokenResponse.refresh_token || the refresh token the call started with
RefreshedToken(respToken, original) == IF Truthy(respToken) THEN respToken ELSE original

\* newTokenData of a refresh
RefreshedRecord(resp, original, uid, t) ==
    TokenData(resp.access_token, RefreshedToken(resp.refresh_token, original),
              ExpiresAtOf(resp.expires_in, t), uid)

\* the token endpoint answers the refresh grant
grantReturns(r, resp) ==
    /\ rq[r].pc = "grant"
    /\ LET u == rq[r].user
           original == The(rq[r].td).refreshToken
       IN  IF rq[r].op = "direct"
           THEN /\ rq' = [rq EXCEPT ![r] =
                            IF resp.ok
                            THEN [@ EXCEPT !.pc = "done", !.outcome = "OK",
                                           !.ret = Some(RefreshedRecord(resp, original, None, now))]
                            ELSE [@ EXCEPT !.pc = "done", !.outcome = "TOKEN_REFRESH_FAILED"]]
                /\ UNCHANGED <<tokens, refreshTimers, tokenFile>>
           ELSE IF resp.ok
           THEN LET newTokenData == RefreshedRecord(resp, original, Some(u), now) IN
                /\ tokens' = storeTokenTokens(tokens, u, newTokenData)
                /\ refreshTimers' = storeTokenTimers(refreshTimers, u, newTokenData, now)
                /\ tokenFile' = saveTokensToFile(tokens')
                /\ rq' = [rq EXCEPT ![r] =
                            [@ EXCEPT !.pc = "done", !.outcome = "OK",
                                      !.ret = Some(newTokenData)]]
           ELSE /\ tokens' = clearTokenTokens(tokens, u)
                /\ refreshTimers' = clearTokenTimers(refreshTimers, u)
                /\ tokenFile' = saveTokensToFile(tokens')
                /\ rq' = [rq EXCEPT ![r] =
                            [@ EXCEPT !.pc = "done", !.outcome = "TOKEN_REFRESH_FAILED"]]
    /\ UNCHANGED <<variant, pendingStates, stateFile, now, ticks, restarts, cb, issued,
                   swept, lastIssued>>
    /\ UNCHANGED poolVars
    /\ UNCHANGED <<authUrl, stores, eh>>

(* ======================================================================= *)
(*                      errorHandler: the calls                            *)
(* ======================================================================= *)

\* the errors handed to the errorHandler: what jsforce, the HTTP layer and the
\* token endpoint raise, property by property ...
ProviderErrors ==
    { ErrorValue(name, "", errorCode, statusCode, status, error, message) :
        name \in {"Error", "INVALID_SESSION_ID", "ValidationError"},
        errorCode \in {"", "INVALID_SESSION_ID", "SESSION_NOT_FOUND", "INVALID_SESSION",
                       "VALIDATION_ERROR", "NETWORK_ERROR", "TOO_MANY_REQUESTS"},
        statusCode \in {0, 401, 429, 500, 599, 600},
        status \in {0, 401},
        error \in {"", "invalid_grant", "invalid_client", "access_denied", "server_error"},
        message \in {<< >>,
                     <<"Session expired", " or invalid">>,
                     <<"INVALID SESSION">>,
                     <<"Authentication Failure">>,
                     <<"Session Not Found">>,
                     <<"OAuth", " flow failed">>,
                     <<"invalid_grant", ": expired authorization code">>,
                     <<"invalid_client", ": client authentication failed">>,
                     <<"access_denied", ": end-user denied authorization">>,
                     <<"Request ", "timeout">>,
                     <<"Timeout", " exceeded">>,
                     <<"network", " unreachable">>,
                     <<"Required fields are missing">>} }

\* ... and the ConnectionErrors this program raises itself
RaisedErrors ==
    {TokenExpired, SessionExpired, SessionRefreshFailed, OAuthFailed, MissingTokenData,
     ConnectionError(<<"Token was revoked">>, "TOKEN_EXPIRED", TRUE),
     ConnectionError(<<"Login required">>, "SESSION_EXPIRED", TRUE),
     TokenRequestFailed("invalid_grant", "expired authorization code")}

ClassifierInputs == ProviderErrors \cup RaisedErrors \cup {Null}

\* the errorHandler call is over
Handled(op) == eh.op = op /\ eh.pc \in {"returned", "threw"}

callIsTokenExpiredError ==
    /\ eh.pc = "idle"
    /\ eh' = [eh EXCEPT !.op = "isTokenExpiredError", !.pc = "returned",
                        !.answer = isTokenExpiredError(eh.error)]
    /\ UNCHANGED <<flowVars, poolVars, rq, authUrl, stores>>

callIsOAuthError ==
    /\ eh.pc = "idle"
    /\ eh' = [eh EXCEPT !.op = "isOAuthError", !.pc = "returned",
                        !.answer = isOAuthError(eh.error)]
    /\ UNCHANGED <<flowVars, poolVars, rq, authUrl, stores>>

\* error.name of null or undefined throws
callShouldRetryOperation ==
    /\ eh.pc = "idle"
    /\ eh' = IF eh.error = Null
             THEN [eh EXCEPT !.op = "shouldRetryOperation", !.pc = "threw",
                             !.thrown = TypeError]
             ELSE [eh EXCEPT !.op = "shouldRetryOperation", !.pc = "returned",
                             !.answer = shouldRetryOperation(eh.error)]
    /\ UNCHANGED <<flowVars, poolVars, rq, authUrl, stores>>

\* error.message of null or undefined throws
callFormatAuthenticationError ==
    /\ eh.pc = "idle"
    /\ eh' = IF eh.error = Null
             THEN [eh EXCEPT !.op = "formatAuthenticationError", !.pc = "threw",
                             !.thrown = TypeError]
             ELSE [eh EXCEPT !.op = "formatAuthenticationError", !.pc = "returned",
                             !.text = formatAuthenticationError(eh.error)]
    /\ UNCHANGED <<flowVars, poolVars, rq, authUrl, stores>>

\* handleConnectionError(error, connection, retryFn, maxRetries), up to its first
\* await; capable: connection.oauth2 && connection.oauth2.clientId
handleConnectionError(maxRetries, capable) ==
    /\ eh.pc = "idle"
    /\ LET e == eh.error
           f == [eh EXCEPT !.op = "handleConnectionError", !.maxRetries = maxRetries]
       IN eh' = IF isTokenExpiredError(e)
                THEN IF maxRetries > 0
                     THEN IF capable
                          THEN [f EXCEPT !.pc = "refreshing"]
                          ELSE [f EXCEPT !.pc = "threw", !.thrown = SessionRefreshFailed]
                     ELSE [f EXCEPT !.pc = "threw", !.thrown = SessionExpired]
                ELSE IF isOAuthError(e)
                THEN [f EXCEPT !.pc = "threw", !.thrown = OAuthFailed]
                ELSE [f EXCEPT !.pc = "threw", !.thrown = e]
    /\ UNCHANGED <<flowVars, poolVars, rq, authUrl, stores>>

\* connection.oauth2.refreshToken settles
connectionRefreshReturns(ok) ==
    /\ eh.pc = "refreshing"
    /\ eh' = IF ok THEN [eh EXCEPT !.pc = "retrying"]
             ELSE [eh EXCEPT !.pc = "threw", !.thrown = SessionRefreshFailed]
    /\ UNCHANGED <<flowVars, poolVars, rq, authUrl, stores>>

\* retryFn settles; its rejection is caught by the same catch as the refresh's
retryFnReturns(ok) ==
    /\ eh.pc = "retrying"
    /\ eh' = IF ok THEN [eh EXCEPT !.pc = "returned", !.answer = TRUE]
             ELSE [eh EXCEPT !.pc = "threw", !.thrown = SessionRefreshFailed]
    /\ UNCHANGED <<flowVars, poolVars, rq, authUrl, stores>>

(* ======================================================================= *)
(*                    ConnectionManager: the operations                    *)
(* ======================================================================= *)

\* Everything a call can touch, with the caller's frame f, so that the calls a
\* handler makes in one turn of the event loop compose.
World(p) ==
    [connections |-> connections, connectionPromises |-> connectionPromises,
     tokenCache |-> tokenCache, creations |-> creations, minted |-> minted,
     tokens |-> tokens, refreshTimers |-> refreshTimers, tokenFile |-> tokenFile,
     p |-> p, f |-> proc[p]]

Commit(p, w) ==
    /\ connections' = w.connections
    /\ connectionPromises' = w.connectionPromises
    /\ tokenCache' = w.tokenCache
    /\ creations' = w.creations
    /\ minted' = w.minted
    /\ tokens' = w.tokens
    /\ refreshTimers' = w.refreshTimers
    /\ tokenFile' = w.tokenFile
    /\ proc' = [proc EXCEPT ![p] = w.f]

EffectiveUserId(userId) == IF userId = "" THEN DEFAULT_USER_ID ELSE userId

isTokenExpiredSoon(cachedToken, t) == t >= cachedToken.expiresAt - CACHE_BUFFER_MS

\* tokenManager.storeToken as the first iteration calls it while building a session
StoreIn(w, userId, td) ==
    LET tk == storeTokenTokens(w.tokens, userId, td) IN
    [w EXCEPT !.tokens = tk,
              !.refreshTimers = storeTokenTimers(w.refreshTimers, userId, td, now),
              !.tokenFile = saveTokensToFile(tk)]

\* createPersonalOAuthConnection (first iteration), config.personalOAuth.tokenData given
createPersonalOAuthConnection(w, n) ==
    IF deploy.tokenData = None THEN <<w, Rejected(MissingOAuthConfig)>>
    ELSE LET td == The(deploy.tokenData) IN
         <<StoreIn(w, EffectiveUserId(PoolUser), td),
           Built(Session(td.accessToken, "config", n))>>

\* createPersonalOAuthConnectionFromEnv up to its await
createPersonalOAuthConnectionFromEnv(w, n) ==
    LET cacheKey == PersonalCacheKey(EffectiveUserId(PoolUser)) IN
    IF ~deploy.envOk THEN <<w, Rejected(MissingOAuthEnvVars)>>
    ELSE IF MapHas(w.tokenCache, cacheKey) /\ ~isTokenExpiredSoon(w.tokenCache[cacheKey], now)
    THEN <<w, Built(Session(w.tokenCache[cacheKey].accessToken, "cache", n))>>
    ELSE <<w, Pending("refresh_grant")>>

createTokenBasedConnection(w, n) ==
    LET td == The(deploy.tokenData) IN
    IF isTokenExpired(td, now) THEN <<w, Rejected(TokenExpired)>>
    ELSE <<IF deploy.cm = 1 THEN StoreIn(w, EffectiveUserId(PoolUser), td) ELSE w,
           Built(Session(td.accessToken, "config", n))>>

createClientCredentialsConnection(w, n) ==
    IF ~deploy.envOk THEN <<w, Rejected(MissingClientCredentials)>>
    ELSE <<w, Pending("client_credentials")>>

createUsernamePasswordConnection(w, n) ==
    IF ~deploy.envOk THEN <<w, Rejected(MissingCredentials)>>
    ELSE <<w, Pending("login")>>

\* createNewConnection up to its first await: the promise it returns is creation n
createNewConnection(w) ==
    LET n == Len(w.creations) + 1
        connectionType == ConnectionTypeOf(deploy)
        r == CASE connectionType = OAuth_2_0_Personal ->
                      IF deploy.cm = 1 THEN createPersonalOAuthConnection(w, n)
                      ELSE createPersonalOAuthConnectionFromEnv(w, n)
               [] connectionType = OAuth_2_0_Authorization_Code ->
                      IF deploy.tokenData = None THEN <<w, Rejected(MissingTokenData)>>
                      ELSE createTokenBasedConnection(w, n)
               [] connectionType = OAuth_2_0_Client_Credentials ->
                      createClientCredentialsConnection(w, n)
               [] OTHER -> createUsernamePasswordConnection(w, n)
    IN  [r[1] EXCEPT !.creations = Append(@, [r[2] EXCEPT !.by = w.p])]

\* getConnection from the look-up of connectionPromises on
JoinOrCreate(w) ==
    IF MapHas(w.connectionPromises, PoolKey)
    THEN [w EXCEPT !.f.pc = "join", !.f.await = w.connectionPromises[PoolKey],
                   !.f.sess = None]
    ELSE LET w2 == createNewConnection(w)
             n  == Len(w2.creations)
         IN  [w2 EXCEPT !.connectionPromises = MapSet(@, PoolKey, n),
                        !.f.pc = "create", !.f.await = n, !.f.sess = None]

\* createDirectAccessTokenConnection: a session around the caller's token
createDirectAccessTokenConnection(w) ==
    LET n == Len(w.creations) + 1 IN
    IF PoolUser = "" \/ StringLength(PoolUser) < 10
    THEN [w EXCEPT !.creations = Append(@, [Rejected(InvalidAccessToken) EXCEPT !.by = w.p])]
    ELSE [w EXCEPT !.creations =
             Append(@, [Built(Session(decodeURIComponent(PoolUser), "direct", n))
                           EXCEPT !.by = w.p])]

\* getConnection up to its first await
getConnection(w) ==
    IF deploy.cm = 2 /\ PoolUser # "" /\ isAccessToken(PoolUser)
    THEN LET w2 == createDirectAccessTokenConnection(w) IN
         [w2 EXCEPT !.f.pc = "direct", !.f.await = Len(w2.creations), !.f.sess = None]
    ELSE IF MapHas(w.connections, PoolKey)
    THEN [w EXCEPT !.f.pc = "probe", !.f.sess = Some(w.connections[PoolKey])]
    ELSE JoinOrCreate(w)

\* a refresh that leaves the cached session in place and asks for a session again
refreshConnection_keeping(w) ==
    LET cleared == IF deploy.cm = 2 /\ deploy.cfgType = OAuth_2_0_Personal
                   THEN [w EXCEPT !.tokenCache =
                            MapDelete(@, PersonalCacheKey(EffectiveUserId(PoolUser)))]
                   ELSE w
    IN  getConnection(cleared)

\* refreshConnection up to its first await
refreshConnection(w) ==
    LET evicted == [w EXCEPT !.connections = MapDelete(@, PoolKey)]
        cleared == IF deploy.cm = 2 /\ deploy.cfgType = OAuth_2_0_Personal
                   THEN [evicted EXCEPT !.tokenCache =
                            MapDelete(@, PersonalCacheKey(EffectiveUserId(PoolUser)))]
                   ELSE evicted
    IN  getConnection(cleared)

\* the call of frame f is over
Resolve(w, v) ==
    [w EXCEPT !.f.pc = "done", !.f.sess = None, !.f.await = 0,
              !.f.outcome = [status |-> "ok", value |-> v, error |-> None]]

Reject(w, e) ==
    [w EXCEPT !.f.pc = "done", !.f.sess = None, !.f.await = 0,
              !.f.outcome = [status |-> "err", value |-> 0, error |-> Some(e)]]

\* one log entry: the session the attempt ran on (None when none was obtained), its
\* error (None for a success), and how many tokens and creations existed by then
Attempt(w, sess, err) ==
    [sess |-> sess, err |-> err, minted |-> w.minted, built |-> Len(w.creations)]

\* a retry budget that is off by one
ShouldRetry_offByOne(e, attempt, maxRetries) == isTokenExpiredError(e) /\ attempt + 1 < maxRetries

\* isTokenExpiredError(error) && attempt < maxRetries
ShouldRetry(e, attempt, maxRetries) == isTokenExpiredError(e) /\ attempt < maxRetries

\* a rejection that replaces the error by a fixed one
Thrown_wrapped(lastError) ==
    ConnectionError(<<"Session expired. Please re-authenticate.">>, "SESSION_EXPIRED", TRUE)

\* throw lastError
Thrown(lastError) == The(lastError)

\* executeWithRetry's catch block
AttemptFailed(w, e, sess) ==
    LET logged == [w EXCEPT !.f.log = Append(@, Attempt(w, sess, Some(e))),
                            !.f.lastError = Some(e)]
    IN  IF ShouldRetry(e, w.f.attempt, w.f.maxRetries)
        THEN refreshConnection([logged EXCEPT !.f.inRefresh = TRUE])
        ELSE Reject(logged, Thrown(logged.f.lastError))

\* a getConnection call of frame f returns sess
Returned(w, sess) ==
    IF w.f.op \in {"get", "refresh"} THEN Resolve(w, sess.token)
    ELSE IF w.f.inRefresh
    THEN getConnection([w EXCEPT !.f.inRefresh = FALSE, !.f.attempt = @ + 1])
    ELSE [w EXCEPT !.f.pc = "op", !.f.sess = Some(sess), !.f.await = 0]

\* a getConnection call of frame f throws e
Threw(w, e) ==
    IF w.f.op \in {"get", "refresh"} \/ w.f.inRefresh THEN Reject(w, e)
    ELSE AttemptFailed(w, e, None)

\* the external call of a pending creation answers
Settled(c, ok, n) ==
    IF ok
    THEN [c EXCEPT !.state = "ok", !.sess = Some(Session(minted + 1, c.via, n))]
    ELSE [c EXCEPT !.state = "err",
                   !.err = Some(CASE c.via = "login" -> InvalidLogin
                                  [] c.via = "client_credentials" ->
                                         TokenRequestFailed("invalid_client", "invalid client credentials")
                                  [] OTHER ->
                                         TokenRefreshFailed(TokenRequestFailed("invalid_grant",
                                                                "expired access/refresh token")))]

\* createPersonalOAuthConnectionFromEnv after its await: the grant's token is cached
CacheGrant(tc, c, ok) ==
    IF ok /\ c.via = "refresh_grant"
    THEN MapSet(tc, PersonalCacheKey(EffectiveUserId(PoolUser)),
                [accessToken |-> minted + 1, expiresAt |-> now + DEFAULT_CACHE_EXPIRY_MS])
    ELSE tc

\* A settled promise has continuations that have not run yet. They run as
\* microtasks, before the event loop delivers the next I/O completion.
Draining ==
    \E p \in Procs : /\ proc[p].pc \in {"create", "join", "direct"}
                     /\ creations[proc[p].await].state # "pending"

creationSettles(n, ok) ==
    /\ ~Draining
    /\ creations[n].state = "pending"
    /\ creations' = [creations EXCEPT ![n] = Settled(@, ok, n)]
    /\ minted' = IF ok THEN minted + 1 ELSE minted
    /\ tokenCache' = CacheGrant(tokenCache, creations[n], ok)
    /\ UNCHANGED <<deploy, connections, connectionPromises, clears, proc>>
    /\ UNCHANGED flowVars
    /\ UNCHANGED storeVars

Started == {p \in Procs : proc[p].op # "idle"}

\* a caller calls getConnection, refreshConnection or executeWithRetry
start(p, op, maxRetries) ==
    /\ proc[p].op = "idle"
    /\ p = Cardinality(Started) + 1
    /\ LET w == [World(p) EXCEPT !.f.op = op, !.f.maxRetries = maxRetries,
                                 !.f.conc = \A q \in Started : proc[q].pc # "done"]
       IN  Commit(p, IF op = "refresh" THEN refreshConnection(w) ELSE getConnection(w))
    /\ UNCHANGED <<deploy, clears>>
    /\ UNCHANGED <<variant, pendingStates, stateFile, now, ticks, restarts, cb, issued,
                   swept, lastIssued>>
    /\ UNCHANGED storeVars

\* what the validity probe (a query on the cached session) can answer
ProbeResults == {None, Some(ExpiredSession), Some(ServerError)}

\* a probe that counts every failure as a stale session
isConnectionValid_strict(r) == r = None

\* isConnectionValid: a probe that throws counts as stale only for an expired session
isConnectionValid(r) == r = None \/ ~isTokenExpiredError(The(r))

probeReturns(p, r) ==
    /\ ~Draining
    /\ proc[p].pc = "probe"
    /\ LET w == [World(p) EXCEPT !.f.probed = IF isConnectionValid(r) THEN "valid" ELSE "stale"]
       IN  Commit(p, IF isConnectionValid(r) THEN Returned(w, The(w.f.sess))
                     ELSE JoinOrCreate(w))
    /\ UNCHANGED <<deploy, clears>>
    /\ UNCHANGED <<variant, pendingStates, stateFile, now, ticks, restarts, cb, issued,
                   swept, lastIssued>>
    /\ UNCHANGED storeVars

\* a joiner that loses the promise it holds when the cache is cleared under it
joinResumes_dropped(p) ==
    /\ proc[p].pc = "join"
    /\ creations[proc[p].await].state # "pending"
    /\ \A q \in Procs : ~(proc[q].pc = "create" /\ proc[q].await = proc[p].await)
    /\ LET w == World(p)
           c == creations[proc[p].await]
       IN  Commit(p, IF c.state = "ok" /\ ~c.cleared THEN Returned(w, The(c.sess))
                     ELSE Threw(w, IF c.state = "ok" THEN TypeError ELSE The(c.err)))
    /\ UNCHANGED <<deploy, clears>>
    /\ UNCHANGED <<variant, pendingStates, stateFile, now, ticks, restarts, cb, issued,
                   swept, lastIssued>>
    /\ UNCHANGED storeVars

\* a caller that returned the promise it found resumes once that promise is settled,
\* after the caller that awaits the promise itself
joinResumes(p) ==
    /\ proc[p].pc = "join"
    /\ creations[proc[p].await].state # "pending"
    /\ \A q \in Procs : ~(proc[q].pc = "create" /\ proc[q].await = proc[p].await)
    /\ LET w == World(p)
           c == creations[proc[p].await]
       IN  Commit(p, IF c.state = "ok" THEN Returned(w, The(c.sess)) ELSE Threw(w, The(c.err)))
    /\ UNCHANGED <<deploy, clears>>
    /\ UNCHANGED <<variant, pendingStates, stateFile, now, ticks, restarts, cb, issued,
                   swept, lastIssued>>
    /\ UNCHANGED storeVars

\* return await this.createDirectAccessTokenConnection(...): the caller resumes
\* with the session, which no map has recorded
directResumes(p) ==
    /\ proc[p].pc = "direct"
    /\ LET w == World(p)
           c == creations[proc[p].await]
       IN  Commit(p, IF c.state = "ok" THEN Returned(w, The(c.sess)) ELSE Threw(w, The(c.err)))
    /\ UNCHANGED <<deploy, clears>>
    /\ UNCHANGED <<variant, pendingStates, stateFile, now, ticks, restarts, cb, issued,
                   swept, lastIssued>>
    /\ UNCHANGED storeVars

\* the caller that called createNewConnection resumes: try { set } finally { delete }
createResumes(p) ==
    /\ proc[p].pc = "create"
    /\ creations[proc[p].await].state # "pending"
    /\ LET w == World(p)
           c == creations[proc[p].await]
           unlisted == [w EXCEPT !.connectionPromises = MapDelete(@, PoolKey)]
       IN  Commit(p, IF c.state = "ok"
                     THEN Returned([unlisted EXCEPT !.connections =
                                       MapSet(@, PoolKey, The(c.sess))], The(c.sess))
                     ELSE Threw(unlisted, The(c.err)))
    /\ UNCHANGED <<deploy, clears>>
    /\ UNCHANGED <<variant, pendingStates, stateFile, now, ticks, restarts, cb, issued,
                   swept, lastIssued>>
    /\ UNCHANGED storeVars

\* what the caller's operation can do with the session: succeed (None) or throw
OperationResults ==
    {None, Some(Unauthorized), Some(ServerError),
     Some(OAuthAuthorizationFailed("invalid_grant", "authentication failure"))}

operationReturns(p, r) ==
    /\ ~Draining
    /\ proc[p].pc = "op"
    /\ LET w == World(p)
       IN  Commit(p, IF r = None
                     THEN Resolve([w EXCEPT !.f.log = Append(@, Attempt(w, w.f.sess, None))],
                                  w.f.attempt + 1)
                     ELSE AttemptFailed(w, The(r), w.f.sess))
    /\ UNCHANGED <<deploy, clears>>
    /\ UNCHANGED <<variant, pendingStates, stateFile, now, ticks, restarts, cb, issued,
                   swept, lastIssued>>
    /\ UNCHANGED storeVars

\* the creations a clear call finds in flight
Overtaken(cs) ==
    [n \in DOMAIN cs |-> IF cs[n].state = "pending" THEN [cs[n] EXCEPT !.cleared = TRUE]
                         ELSE cs[n]]

clearConnection ==
    /\ clears < MaxClears
    /\ clears' = clears + 1
    /\ connections' = MapDelete(connections, PoolKey)
    /\ creations' = Overtaken(creations)
    /\ IF deploy.cm = 1
       THEN /\ tokens' = clearTokenTokens(tokens, EffectiveUserId(PoolUser))
            /\ refreshTimers' = clearTokenTimers(refreshTimers, EffectiveUserId(PoolUser))
            /\ tokenFile' = saveTokensToFile(tokens')
       ELSE UNCHANGED <<tokens, refreshTimers, tokenFile>>
    /\ UNCHANGED <<deploy, connectionPromises, tokenCache, minted, proc>>
    /\ UNCHANGED <<variant, pendingStates, stateFile, now, ticks, restarts, cb, issued,
                   swept, lastIssued>>
    /\ UNCHANGED storeVars

clearAllConnections ==
    /\ clears < MaxClears
    /\ clears' = clears + 1
    /\ connections' = EmptyMap
    /\ connectionPromises' = EmptyMap
    /\ creations' = Overtaken(creations)
    /\ IF deploy.cm = 1
       THEN /\ tokens' = EmptyMap
            /\ refreshTimers' = EmptyMap
            /\ tokenFile' = saveTokensToFile(tokens')
       ELSE UNCHANGED <<tokens, refreshTimers, tokenFile>>
    /\ UNCHANGED <<deploy, tokenCache, minted, proc>>
    /\ UNCHANGED <<variant, pendingStates, stateFile, now, ticks, restarts, cb, issued,
                   swept, lastIssued>>
    /\ UNCHANGED storeVars

\* the handler and the Token Store with nothing going on
HandlerFresh ==
    /\ variant = "memory"
    /\ pendingStates = EmptyMap
    /\ stateFile = EmptyMap
    /\ tokens = EmptyMap
    /\ refreshTimers = EmptyMap
    /\ tokenFile = EmptyMap
    /\ now = 0
    /\ ticks = 0
    /\ restarts = 0
    /\ cb = [c \in Calls |-> NewFrame]
    /\ issued = {}
    /\ swept = {}
    /\ lastIssued = << >>

FlowIdle ==
    /\ HandlerFresh
    /\ StoreIdle

\* the session an earlier getConnection left in the cache
WarmSession(d) ==
    CASE ConnectionTypeOf(d) = OAuth_2_0_Personal -> Session(1, "refresh_grant", 1)
      [] ConnectionTypeOf(d) = OAuth_2_0_Authorization_Code -> Session(ConfigToken, "config", 1)
      [] ConnectionTypeOf(d) = OAuth_2_0_Client_Credentials -> Session(1, "client_credentials", 1)
      [] OTHER -> Session(1, "login", 1)

\* The pool as construction leaves it (cold), or as one completed getConnection
\* leaves it (warm), in one of the deployments D.
InitWith(D) ==
    /\ FlowIdle
    /\ deploy \in D
    /\ clears = 0
    /\ proc = [p \in Procs |-> IdleFrame]
    /\ connectionPromises = EmptyMap
    /\ \E warm \in BOOLEAN :
          IF warm /\ deploy.envOk /\ ~isAccessToken(deploy.arg)
          THEN /\ connections = MapSet(EmptyMap, PoolKey, WarmSession(deploy))
               /\ creations = <<Built(WarmSession(deploy))>>
               /\ minted = IF WarmSession(deploy).token = ConfigToken THEN 0 ELSE 1
               /\ tokenCache = IF WarmSession(deploy).via = "refresh_grant"
                               THEN MapSet(EmptyMap, PersonalCacheKey(EffectiveUserId(PoolUser)),
                                           [accessToken |-> 1,
                                            expiresAt |-> DEFAULT_CACHE_EXPIRY_MS])
                               ELSE EmptyMap
          ELSE /\ connections = EmptyMap
               /\ creations = << >>
               /\ minted = 0
               /\ tokenCache = EmptyMap

\* the deployments the callers race in: the mode does not enter into the pooling
PoolDeployments == {Deployment(1, "", "", TRUE, None)}

\* the operation of a racing caller succeeds or meets an expired session
PoolOperationResults == {None, Some(Unauthorized)}

InitPool == InitWith(PoolDeployments)

NextPool ==
    \/ \E p \in Procs : start(p, "get", 0)
    \/ \E p \in Procs : start(p, "refresh", 0)
    \/ \E p \in Procs : start(p, "exec", DEFAULT_MAX_RETRIES)
    \/ \E p \in Procs, r \in ProbeResults : probeReturns(p, r)
    \/ \E n \in DOMAIN creations, ok \in BOOLEAN : creationSettles(n, ok)
    \/ \E p \in Procs : joinResumes(p)
    \/ \E p \in Procs : createResumes(p)
    \/ \E p \in Procs, r \in PoolOperationResults : operationReturns(p, r)
    \/ clearConnection
    \/ clearAllConnections

\* concurrent callers of one ConnectionManager
SpecPool == InitPool /\ [][NextPool]_vars

\* the probe of a racing caller under fairness finds the session live or expired
SettleProbeResults == {None, Some(ExpiredSession)}

\* one caller runs executeWithRetry, the others getConnection or refreshConnection
NextSettle ==
    \/ \E p \in Procs : start(p, "get", 0)
    \/ \E p \in Procs : start(p, "refresh", 0)
    \/ \E maxRetries \in RetryBudgets : start(1, "exec", maxRetries)
    \/ \E p \in Procs, r \in SettleProbeResults : probeReturns(p, r)
    \/ \E n \in DOMAIN creations, ok \in BOOLEAN : creationSettles(n, ok)
    \/ \E p \in Procs : joinResumes(p)
    \/ \E p \in Procs : createResumes(p)
    \/ \E p \in Procs, r \in PoolOperationResults : operationReturns(p, r)
    \/ clearConnection
    \/ clearAllConnections

\* concurrent callers, every construction, probe and operation call settling and
\* every continuation of a settled promise running
SpecSettle ==
    /\ InitPool
    /\ [][NextSettle]_vars
    /\ WF_vars(\E n \in DOMAIN creations, ok \in BOOLEAN : creationSettles(n, ok))
    /\ WF_vars(\E p \in Procs, r \in SettleProbeResults : probeReturns(p, r))
    /\ WF_vars(\E p \in Procs, r \in PoolOperationResults : operationReturns(p, r))
    /\ WF_vars(\E p \in Procs : joinResumes(p))
    /\ WF_vars(\E p \in Procs : createResumes(p))

InitRetry == InitWith(Deployments)

\* one caller of executeWithRetry; the cache may be cleared under it at any point
NextRetry ==
    \/ \E maxRetries \in RetryBudgets : start(1, "exec", maxRetries)
    \/ \E r \in ProbeResults : probeReturns(1, r)
    \/ \E n \in DOMAIN creations, ok \in BOOLEAN : creationSettles(n, ok)
    \/ createResumes(1)
    \/ \E r \in OperationResults : operationReturns(1, r)
    \/ clearConnection
    \/ clearAllConnections

\* executeWithRetry in every deployment
SpecRetry == InitRetry /\ [][NextRetry]_vars

\* every auth mode, the pass-through of a caller's own access token among them
CacheDeployments == Deployments \cup {DirectDeployment, ExpiringDeployment}

InitCache == InitWith(CacheDeployments)

\* callers that obtain a session and run an operation that succeeds on it
NextCache ==
    \/ Tick
    \/ \E p \in Procs : start(p, "exec", 0)
    \/ \E p \in Procs, r \in ProbeResults : probeReturns(p, r)
    \/ \E n \in DOMAIN creations, ok \in BOOLEAN : creationSettles(n, ok)
    \/ \E p \in Procs : joinResumes(p)
    \/ \E p \in Procs : createResumes(p)
    \/ \E p \in Procs : directResumes(p)
    \/ \E p \in Procs : operationReturns(p, None)

\* the session cache in every auth mode
SpecCache == InitCache /\ [][NextCache]_vars

\* the Token Store of a fresh process, nothing else going on
InitStore ==
    /\ FlowIdle
    /\ PoolIdle

NextStore ==
    \/ Tick
    \/ \E u \in StoreUsers, td \in SeedRecords : storeToken(u, td)
    \/ \E r \in Requests, u \in StoreUsers : revokeUserTokens(r, u)
    \/ \E r \in Requests, ok \in BOOLEAN : revokeReturns(r, ok)
    \/ \E r \in Requests, u \in StoreUsers : refreshUserTokens(r, u)
    \/ \E r \in Requests, resp \in GrantResponses : grantReturns(r, resp)
    \/ \E u \in StoreUsers : timerFires(u)

\* the Token Store under revocations, refreshes and eviction timers
SpecStore == InitStore /\ [][NextStore]_vars

NextRefresh ==
    \/ Tick
    \/ \E u \in StoreUsers, td \in SeedRecords : storeToken(u, td)
    \/ \E r \in Requests, u \in StoreUsers : refreshUserTokens(r, u)
    \/ \E r \in Requests, rt \in HeldRefreshTokens : refreshTokenDirect(r, rt)
    \/ \E r \in Requests, resp \in GrantResponses : grantReturns(r, resp)

\* refreshes, through the Token Store and past it
SpecRefresh == InitStore /\ [][NextRefresh]_vars

NextReload ==
    \/ Tick
    \/ \E u \in StoreUsers, td \in SeedRecords : storeToken(u, td)
    \/ \E r \in Requests, u \in StoreUsers : refreshUserTokens(r, u)
    \/ \E r \in Requests, resp \in GrantResponses : grantReturns(r, resp)
    \/ \E u \in StoreUsers : timerFires(u)
    \/ restart

\* the Token Store across process restarts
SpecReload == InitStore /\ [][NextReload]_vars

NextTimer ==
    \/ Tick
    \/ \E u \in StoreUsers, td \in SeedRecords : storeToken(u, td)
    \/ \E r \in Requests, u \in StoreUsers : revokeUserTokens(r, u)
    \/ \E r \in Requests, ok \in BOOLEAN : revokeReturns(r, ok)
    \/ \E u \in StoreUsers : timerFires(u)

NextPersist ==
    \/ Tick
    \/ \E u \in StoreUsers, td \in SeedRecords : storeToken(u, td)
    \/ \E r \in Requests, u \in StoreUsers : revokeUserTokens(r, u)
    \/ \E r \in Requests, ok \in BOOLEAN : revokeReturns(r, ok)
    \/ \E u \in StoreUsers : timerFires(u)
    \/ clearAllConnections
    \/ restart

\* the Token Store and its file: stores, clears, cleanup and process restarts
SpecPersist == InitStore /\ [][NextPersist]_vars

NextInspect ==
    \/ Tick
    \/ \E u \in StoreUsers, td \in SeedRecords : storeToken(u, td)
    \/ \E r \in Requests, u \in StoreUsers : callGetToken(r, u)
    \/ clearExpiredTokens
    \/ \E r \in Requests, u \in StoreUsers : refreshUserTokens(r, u)
    \/ \E r \in Requests, resp \in GrantResponses : grantReturns(r, resp)
    \/ \E u \in StoreUsers : timerFires(u)
    \/ clearAllConnections
    \/ restart

\* readers of the Token Store among everything that removes records
SpecInspect == InitStore /\ [][NextInspect]_vars

\* stored records and their eviction timers: the clock keeps running while the
\* process is up, and a timer that is due runs its callback
SpecTimer ==
    /\ InitStore
    /\ [][NextTimer]_vars
    /\ WF_vars(Tick)
    /\ WF_vars(\E u \in StoreUsers : timerFires(u))

\* the lifetimes a token endpoint may announce: none, zero seconds, two hours
AnnouncedLifetimes == {None, Some(0), Some(7200)}

\* answers that grant a code, one for each announced lifetime, and a refusal
LifetimeExchangeResponses ==
    (ExchangeResponses \ Granted(ExchangeResponses)) \cup
    {[ok |-> TRUE, access_token |-> "at_code", refresh_token |-> Some("rt"),
      expires_in |-> e] : e \in AnnouncedLifetimes}

\* answers that grant a refresh, one for each announced lifetime, and a refusal
LifetimeGrantResponses ==
    (GrantResponses \ Granted(GrantResponses)) \cup
    {[ok |-> TRUE, access_token |-> "at_r", refresh_token |-> None,
      expires_in |-> e] : e \in AnnouncedLifetimes}

NextLifetime ==
    \/ Tick
    \/ \E u \in Placeholders : initiateAuthFlow(u)
    \/ \E c \in Calls, s \in CarriedStates : handleCallback(c, s, FALSE)
    \/ \E c \in Calls, resp \in LifetimeExchangeResponses : exchangeReturns(c, resp)
    \/ \E c \in Calls, r \in Granted(IdentityResponses) : identityReturns(c, r)
    \/ \E r \in Requests, u \in StoreUsers : refreshUserTokens(r, u)
    \/ \E r \in Requests, resp \in LifetimeGrantResponses : grantReturns(r, resp)

\* code exchanges and refreshes against a provider that announces any lifetime
SpecLifetime == InitStore /\ [][NextLifetime]_vars

\* one errorHandler call on one error, nothing else going on
InitClassify ==
    /\ HandlerFresh
    /\ PoolIdle
    /\ CallersIdle
    /\ eh \in {IdleHandling(e) : e \in ClassifierInputs}

NextClassify ==
    \/ callIsTokenExpiredError
    \/ callIsOAuthError
    \/ callShouldRetryOperation
    \/ callFormatAuthenticationError
    \/ \E maxRetries \in 0..1, capable \in BOOLEAN : handleConnectionError(maxRetries, capable)
    \/ \E ok \in BOOLEAN : connectionRefreshReturns(ok)
    \/ \E ok \in BOOLEAN : retryFnReturns(ok)

\* the error classifier and its consumers
SpecClassify == InitClassify /\ [][NextClassify]_vars

(* ======================================================================= *)
(*                 Properties of the authorization flow                    *)
(* ======================================================================= *)

\* callbacks begun so far that carry state s and no provider error
Carrying(s) == {c \in Begun : cb[c].state = s /\ ~cb[c].err}

\* those of them that got past state validation
PastValidation(s) == {c \in Carrying(s) : cb[c].verdict = "PASS"}

\* C1: for every state S issued by initiateAuthFlow, among the handleCallback /
\* handleImplicitCallback calls that carry S and no provider error exactly one gets
\* past state validation, and every later one fails with INVALID_STATE without
\* reaching the code exchange.
C1_ExactlyOnePastValidation ==
    \A s \in issued :
        Carrying(s) # {} =>
            /\ Cardinality(PastValidation(s)) = 1
            /\ \A c \in PastValidation(s), d \in Carrying(s) :
                  d > c => /\ cb[d].verdict = "INVALID_STATE"
                           /\ cb[d].outcome = "INVALID_STATE"
                           /\ ~cb[d].exchanged

\* C8: a callback carrying a provider error and a state S that is pending fails
\* with OAuthAuthorizationFailed and consumes S: S is not pending afterwards and a
\* later {code, state: S} fails with INVALID_STATE instead of being exchanged.
C8_ProviderErrorConsumesState ==
    \A c \in Begun :
        (cb[c].err /\ cb[c].pendingAtCall) =>
            /\ cb[c].outcome = "OAUTH_AUTHORIZATION_FAILED"
            /\ ~MapHas(pendingStates, cb[c].state)
            /\ \A d \in Begun :
                  (d > c /\ cb[d].kind = "code" /\ ~cb[d].err /\ cb[d].state = cb[c].state)
                      => (cb[d].verdict = "INVALID_STATE" /\ ~cb[d].exchanged)

\* C9: a callback {code, state} whose state was never issued or is no longer
\* pending makes handleCallback fail with INVALID_STATE without calling
\* exchangeCodeForTokens and without an identity lookup.
C9_UnknownStateRejected ==
    \A c \in Begun :
        (cb[c].kind = "code" /\ ~cb[c].err /\ ~cb[c].pendingAtCall) =>
            /\ cb[c].outcome = "INVALID_STATE"
            /\ ~cb[c].exchanged
            /\ ~cb[c].identified

\* a step in which cleanupExpiredStates runs
SweepStep == getOAuthStats \/ \E u \in Placeholders : initiateAuthFlow(u)

\* no pending entry is older than the timeout
NoneOverdue == \A s \in DOMAIN pendingStates : now - pendingStates[s].timestamp <= STATE_TIMEOUT_MS

\* the state of the latest initiateAuthFlow is pending
JustIssuedPending == lastIssued # << >> /\ MapHas(pendingStates, lastIssued[1])

\* a callback that carried a state already removed by a sweep failed with INVALID_STATE
SweptRejected ==
    \A c \in Begun :
        (cb[c].sweptAtCall /\ ~cb[c].err) =>
            (cb[c].verdict = "INVALID_STATE" /\ ~cb[c].exchanged /\ ~cb[c].identified)

Stale == {c \in Begun : ~cb[c].err /\ (cb[c].overdueAtCall \/ cb[c].sweptAtCall)}

\* C11: an authorization attempt whose state is older than the 10-minute timeout
\* never completes: a callback carrying it fails with STATE_EXPIRED if the state
\* was not yet swept and with INVALID_STATE if it was, reaches neither the code
\* exchange nor the identity lookup and the Token Store, and every later callback
\* with that state fails with INVALID_STATE.
C11_ExpiredNeverCompletes ==
    \A c \in Stale :
        /\ cb[c].verdict = IF cb[c].sweptAtCall THEN "INVALID_STATE" ELSE "STATE_EXPIRED"
        /\ ~cb[c].exchanged
        /\ ~cb[c].identified
        /\ cb[c].outcome # "OK"
        /\ \A d \in Begun :
              (d > c /\ cb[d].state = cb[c].state /\ ~cb[d].err) =>
                  cb[d].verdict = "INVALID_STATE"

\* the Token Store key the specification asks for: e-mail, else username, else the
\* provider's subject id, a value missing or reported as 'unknown' counting as absent
IdentityKey(r) ==
    IF r.email \notin {"", "unknown"} THEN r.email
    ELSE IF r.username \notin {"", "unknown"} THEN r.username
    ELSE r.user_id

\* C17: after a successful callback, authorization-code or implicit, the record is
\* stored under the identity-derived key (e-mail, else username, else provider
\* subject id) and never under the placeholder passed to initiateAuthFlow; both
\* callback variants follow the same rule.
C17_IdentityDerivedKey ==
    [][\A c \in Calls, r \in IdentityResponses \cup IdentityFallbacks :
          (identityReturns(c, r) /\ r.ok) =>
              /\ cb'[c].outcome = "OK"
              /\ cb'[c].key = IdentityKey(r)
              /\ MapHas(tokens', IdentityKey(r))
              /\ cb'[c].key \notin Placeholders]_vars

\* the step in which callback c returns or throws
Ends(c) == cb[c].pc # "done" /\ cb'[c].pc = "done"

\* C18: handleCallback and handleImplicitCallback store a record if and only if
\* they return successfully; on every failing path (provider error, unknown or
\* expired state, code-exchange failure, identity failure) the Token Store is
\* unchanged; and once an attempt has ended, no later callback for the same state
\* completes it.
C18_StoreIffCompleted ==
    /\ [][\A c \in Calls :
            Ends(c) =>
                IF cb'[c].outcome = "OK"
                THEN /\ MapHas(tokens', cb'[c].key)
                     /\ tokens'[cb'[c].key].accessToken = cb[c].td.accessToken
                ELSE UNCHANGED <<tokens, refreshTimers, tokenFile>>]_vars
    /\ [][tokens' # tokens => \E c \in Calls : Ends(c) /\ cb'[c].outcome = "OK"]_vars
    /\ [](\A c, d \in Begun :
             (c < d /\ cb[c].state \in issued /\ cb[d].state = cb[c].state
                    /\ cb[c].pc = "done") => cb[d].outcome # "OK")

\* C30: when the code exchange succeeds but identity resolution fails (getUserInfo
\* returns null), handleCallback fails with the kind USER_INFO_FAILED, distinct
\* from the kind CODE_EXCHANGE_FAILED it reports when the token endpoint rejects
\* the code.
C30_IdentityFailureKind ==
    /\ [][\A c \in Calls, resp \in ExchangeResponses :
             (exchangeReturns(c, resp) /\ cb[c].kind = "code" /\ ~resp.ok) =>
                 cb'[c].outcome = "CODE_EXCHANGE_FAILED"]_vars
    /\ [][\A c \in Calls, r \in IdentityResponses \cup IdentityFallbacks :
             (identityReturns(c, r) /\ cb[c].kind = "code" /\ getUserInfo(r) = None) =>
                 /\ cb'[c].outcome = "USER_INFO_FAILED"
                 /\ cb'[c].outcome # "CODE_EXCHANGE_FAILED"]_vars

\* states that a callback consumed or found expired, or that a sweep deleted
ConsumedOrExpired ==
    swept \cup {cb[c].state : c \in {d \in Begun : cb[d].verdict \in {"PASS", "STATE_EXPIRED"}}}

\* C37: in the file-persisted Flow State Tracker the persisted set of pending
\* states equals the in-memory set after every issue, consume, expiry deletion
\* and sweep, so that a state consumed or expired before a process restart is not
\* pending after the handler reloads oauth_states.json and is never matched again.
C37_StateFileMirrorsPending ==
    variant = "file" =>
        /\ stateFile = pendingStates
        /\ \A s \in ConsumedOrExpired : ~MapHas(pendingStates, s)

\* the URL the latest initiateAuthFlow returned, as its receiver reads it
IssuedUrl == authUrl[1]

\* C20: the authorization URL issued by initiateAuthFlow for clientId, redirectUri
\* and no explicit scope carries response_type=code, the given client_id and
\* redirect_uri, scope 'id api refresh_token', and a state parameter equal to the
\* 64-hex-character state that was recorded as pending and returned to the caller.
C20_AuthorizationUrl ==
    authUrl # << >> =>
        /\ IssuedUrl.response_type = Some("code")
        /\ \E params \in AuthRequests :
              /\ params.scope = ""
              /\ IssuedUrl.client_id = Some(FormEncode(params.clientId))
              /\ FormDecode(The(IssuedUrl.client_id)) = params.clientId
              /\ IssuedUrl.redirect_uri = Some(FormEncode(params.redirectUri))
              /\ FormDecode(The(IssuedUrl.redirect_uri)) = params.redirectUri
        /\ FormDecode(The(IssuedUrl.scope)) = "id api refresh_token"
        /\ IssuedUrl.state = Some(lastIssued[1])
        /\ StateHexLength = 64

(* ======================================================================= *)
(*                      Properties of the Token Store                      *)
(* ======================================================================= *)

\* C12: when revokeUserTokens(U) runs for a user with a stored, unexpired token and
\* the remote revoke call fails, the call rejects with TOKEN_REVOCATION_FAILED and a
\* getToken(U) made right after returns null.
C12_FailedRevokeClears ==
    [][\A r \in Requests :
          revokeReturns(r, FALSE) =>
              /\ rq'[r].outcome = "TOKEN_REVOCATION_FAILED"
              /\ getToken(tokens', rq[r].user, now') = None]_vars

\* C12 witness: a revocation that had read an unexpired record was refused by the
\* revoke endpoint, and the user has no token
C12_Witness ==
    \E r \in Requests :
        /\ rq[r].op = "revoke"
        /\ rq[r].td # None
        /\ rq[r].outcome = "TOKEN_REVOCATION_FAILED"
        /\ getToken(tokens, rq[r].user, now) = None

\* the step in which call r returns or throws
Concludes(r) == rq[r].pc # "done" /\ rq'[r].pc = "done"

\* C13: revokeUserTokens(U) clears U's local record whatever its outcome: once it
\* has returned or thrown the Token Store holds no record for U and no eviction
\* timer for U is armed, also when the stored record is past its buffered expiry.
C13_RevokeAlwaysClears ==
    [][\A r \in Requests :
          (Concludes(r) /\ rq'[r].op = "revoke") =>
              /\ ~MapHas(tokens', rq'[r].user)
              /\ ~MapHas(refreshTimers', rq'[r].user)]_vars

\* C14: when the token endpoint refuses the refresh grant, the refresh fails with
\* TOKEN_REFRESH_FAILED and the user's record is evicted: gone from memory and
\* from tokens.json, and no eviction timer is left for the user.
C14_FailedRefreshEvicts ==
    [][\A r \in Requests, resp \in GrantResponses :
          (grantReturns(r, resp) /\ ~resp.ok /\ rq[r].op = "refresh") =>
              /\ rq'[r].outcome = "TOKEN_REFRESH_FAILED"
              /\ ~MapHas(tokens', rq[r].user)
              /\ ~MapHas(tokenFile', rq[r].user)
              /\ ~MapHas(refreshTimers', rq[r].user)]_vars

\* C14 witness: a refresh that went to the token endpoint failed and the user's
\* record is gone everywhere
C14_Witness ==
    \E r \in Requests :
        /\ rq[r].op = "refresh"
        /\ rq[r].td # None
        /\ rq[r].outcome = "TOKEN_REFRESH_FAILED"
        /\ ~MapHas(tokens, rq[r].user)
        /\ ~MapHas(tokenFile, rq[r].user)
        /\ ~MapHas(refreshTimers, rq[r].user)

\* the instant from which a record counts as expired: expiresAt minus the buffer
Horizon(td) == The(td.expiresAt) - TOKEN_REFRESH_BUFFER_MS

\* C15: for every record with expiresAt set, isTokenExpired is false at every
\* instant strictly before expiresAt minus the 5-minute buffer and true at that
\* instant and after; with expiresAt unset it is false at every instant.
C15_ExpiryHorizon ==
    \A u \in DOMAIN tokens :
        IF tokens[u].expiresAt = None
        THEN ~isTokenExpired(tokens[u], now)
        ELSE /\ now < Horizon(tokens[u]) => ~isTokenExpired(tokens[u], now)
             /\ now >= Horizon(tokens[u]) => isTokenExpired(tokens[u], now)

\* C15 witness: the clock stands exactly at the horizon of a stored record, which
\* counts as expired
C15_Witness ==
    \E u \in DOMAIN tokens :
        /\ tokens[u].expiresAt # None
        /\ now = Horizon(tokens[u])
        /\ isTokenExpired(tokens[u], now)

\* C16: in every reachable state of the Token Store getToken(U) never returns a
\* record at or past its buffered-expiry horizon, eviction timer or not, also for
\* the records loaded from tokens.json at startup, for which no timer is armed.
C16_GetTokenNeverStale ==
    \A u \in StoreUsers :
        \A td \in getToken(tokens, u, now) :
            td.expiresAt = None \/ now < Horizon(td)

\* C16 witness: after a restart a record loaded from the file is at or past its
\* horizon, no timer is armed for it, and getToken returns null
C16_Witness ==
    \E u \in DOMAIN tokens :
        /\ restarts > 0
        /\ ~MapHas(refreshTimers, u)
        /\ tokens[u].expiresAt # None
        /\ now >= Horizon(tokens[u])
        /\ getToken(tokens, u, now) = None

\* C19: a successful refresh returns, and through the Token Store also stores, a
\* record whose refresh token is the provider's new one when the answer carries
\* one and the one the call started with otherwise; so a refresh never yields a
\* record without a refresh token.
C19_RefreshTokenKept ==
    [][\A r \in Requests, resp \in GrantResponses :
          (grantReturns(r, resp) /\ resp.ok) =>
              LET carried  == IF Truthy(resp.refresh_token) THEN resp.refresh_token
                              ELSE The(rq[r].td).refreshToken
                  returned == The(rq'[r].ret)
              IN  /\ returned.refreshToken = carried
                  /\ Truthy(returned.refreshToken)
                  /\ rq[r].op = "refresh" =>
                        tokens'[rq[r].user].refreshToken = carried]_vars

\* C19 witness: a chain of two refreshes through the Token Store, the first
\* answered without a refresh token (the original is kept), the second with a
\* rotated one
C19_Witness ==
    /\ rq[1].op = "refresh" /\ rq[1].outcome = "OK"
    /\ rq[2].op = "refresh" /\ rq[2].outcome = "OK"
    /\ The(rq[1].ret).refreshToken = Some("rt")
    /\ rq[2].td = Some(The(rq[1].ret))
    /\ The(rq[2].ret).refreshToken = Some("rt2")
    /\ \E u \in DOMAIN tokens : tokens[u].refreshToken = Some("rt2")

\* the expiresAt the specification asks for: now + expires_in seconds whenever the
\* answer carries an expires_in, unset only when it carries none
AnnouncedExpiry(resp, t) ==
    IF resp.expires_in = None THEN None ELSE Some(t + The(resp.expires_in) * 1000)

\* C31: whenever the token endpoint's answer carries an expires_in value (any
\* number of seconds), exchangeCodeForTokens and refreshToken produce a record
\* with expiresAt = now + expires_in seconds; expiresAt is left unset only when
\* expires_in is absent from the answer.
C31_ExpiresInConverted ==
    /\ [][\A c \in Calls, resp \in LifetimeExchangeResponses :
             (exchangeReturns(c, resp) /\ resp.ok) =>
                 cb'[c].td.expiresAt = AnnouncedExpiry(resp, now)]_vars
    /\ [][\A r \in Requests, resp \in LifetimeGrantResponses :
             (grantReturns(r, resp) /\ resp.ok) =>
                 The(rq'[r].ret).expiresAt = AnnouncedExpiry(resp, now)]_vars

(* ======================================================================= *)
(*                   Properties of the ConnectionManager                   *)
(* ======================================================================= *)

\* the createNewConnection calls made by the callers of this behaviour
Constructions == {n \in DOMAIN creations : creations[n].by \in Started}

\* every call so far is a plain getConnection, begun while all earlier ones were
\* still running, that found the cache empty or its session stale; nothing cleared
ConcurrentGets ==
    /\ Started # {}
    /\ clears = 0
    /\ \A p \in Started : proc[p].op = "get" /\ proc[p].conc /\ proc[p].probed # "valid"

\* C2: getConnection invoked N times concurrently for one key triggers exactly one
\* createNewConnection, whether the cache was empty or held a stale session and
\* however the callers' suspension points interleave.
C2_OneConstruction ==
    ConcurrentGets =>
        /\ Cardinality(Constructions) <= 1
        /\ (\A p \in Started : proc[p].pc # "probe") => Cardinality(Constructions) = 1

\* the operation invocations of a call so far
Invocations(f) ==
    Cardinality({i \in DOMAIN f.log : f.log[i].sess # None}) + (IF f.pc = "op" THEN 1 ELSE 0)

\* the errors the specification says are never retried
NeverRetried == {"MISSING_CREDENTIALS", "OAUTH_AUTHORIZATION_FAILED"}

\* C3: executeWithRetry with the default maxRetries invokes the operation at most
\* twice, a second time only after a first failure that isTokenExpiredError
\* classifies as expired-session, and a failure with a MissingCredentials or
\* OAuthAuthorizationFailed error ends the call after a single attempt.
C3_RetryOnlyExpiredSession ==
    \A p \in Started :
        LET f == proc[p] IN
        (f.op = "exec" /\ f.maxRetries = DEFAULT_MAX_RETRIES) =>
            /\ Invocations(f) <= 2
            /\ \A i \in DOMAIN f.log : \A e \in f.log[i].err :
                  /\ (i = 1 /\ (f.attempt > 0 \/ f.inRefresh)) => isTokenExpiredError(e)
                  /\ e.code \in NeverRetried =>
                        (f.pc = "done" /\ Len(f.log) = i /\ f.outcome.error = Some(e))

\* a refresh token is at hand: in the environment (personal OAuth) or in config.tokenData
HasRefreshToken(d) ==
    \/ ConnectionTypeOf(d) = OAuth_2_0_Personal /\ d.cm = 2 /\ d.envOk
    \/ \E td \in d.tokenData : td.refreshToken # None

\* the access tokens minted by a refresh-token grant
GrantTokens ==
    {t \in 1..minted : \E n \in DOMAIN creations : \E s \in creations[n].sess :
                          s.via = "refresh_grant" /\ s.token = t}

\* the session the retry of a call runs on, once it has one
RetrySession(f) ==
    IF Len(f.log) >= 2 THEN f.log[2].sess
    ELSE IF f.pc = "op" /\ f.attempt >= 1 THEN f.sess
    ELSE None

\* C4: after an attempt failed with an expired-session error and a retry remained,
\* the retry runs on a session built after the eviction; when a refresh token is
\* available its access token was minted by a refresh grant after the failure, so
\* the retry never runs with the access token that just failed.
C4_RetryOnFreshToken ==
    \A p \in Started :
        LET f == proc[p] IN
        \A s \in RetrySession(f) :
            /\ s.built > f.log[1].built
            /\ \A failed \in f.log[1].sess : s.token # failed.token
            /\ HasRefreshToken(deploy) =>
                  (s.token \in GrantTokens /\ s.token > f.log[1].minted)

\* creations whose promise is not settled
InFlight == {n \in DOMAIN creations : creations[n].state = "pending"}

\* C5: under any interleaving of getConnection, refreshConnection, executeWithRetry,
\* clearConnection and clearAllConnections at most one creation is in flight per
\* key and at most one session is cached per key.
C5_SingleFlight ==
    /\ Cardinality(InFlight) <= 1
    /\ Cardinality(DOMAIN connections) <= 1

\* the first attempt of f ran on a session that was in the cache and met a 401
FirstUse401(f) ==
    /\ f.log # << >>
    /\ f.log[1].err = Some(Unauthorized)
    /\ \E s \in f.log[1].sess : s.built = 1 /\ creations[1].by = 0

\* C6: when a cached session fails its first use with a 401 and the operation
\* succeeds on the refreshed session, executeWithRetry resolves with the second
\* attempt's result and no error reaches the caller; the 401 itself is never what
\* the caller gets while a retry remains.
C6_RetrySucceeds ==
    \A p \in Started :
        LET f == proc[p] IN
        (f.op = "exec" /\ f.maxRetries >= 1 /\ FirstUse401(f) /\ f.pc = "done") =>
            /\ Len(f.log) = 1 => f.outcome.error # Some(Unauthorized)
            /\ (Len(f.log) = 2 /\ f.log[2].err = None) =>
                  f.outcome = [status |-> "ok", value |-> 2, error |-> None]

\* C6 witness: the cached session met a 401, the retry succeeded, the call resolved
C6_Witness ==
    \E p \in Started :
        /\ proc[p].op = "exec"
        /\ FirstUse401(proc[p])
        /\ Len(proc[p].log) = 2
        /\ proc[p].log[2].err = None
        /\ proc[p].outcome.status = "ok"

\* an attempt of caller p fails in this step with an error that is not retried
FinalFailure(p) ==
    /\ Len(proc'[p].log) = Len(proc[p].log) + 1
    /\ proc'[p].log[Len(proc'[p].log)].err # None
    /\ LET e == The(proc'[p].log[Len(proc'[p].log)].err) IN
       ~(isTokenExpiredError(e) /\ proc[p].attempt < proc[p].maxRetries)

\* C7: when an attempt fails with an error that is not classified expired-session,
\* or with any error once no retry remains, executeWithRetry rejects with that
\* very error value and the cached session of the key is not evicted.
C7_ErrorPropagatesUnchanged ==
    [][\A p \in Procs :
          FinalFailure(p) =>
              /\ proc'[p].pc = "done"
              /\ proc'[p].outcome =
                    [status |-> "err", value |-> 0,
                     error |-> proc'[p].log[Len(proc'[p].log)].err]
              /\ connections' = connections]_vars

\* C7 witness: both attempts met a 401, the second 401 reached the caller and the
\* session the retry ran on is still cached
C7_Witness ==
    \E p \in Started :
        /\ proc[p].pc = "done"
        /\ Len(proc[p].log) = 2
        /\ proc[p].log[2].err = Some(Unauthorized)
        /\ proc[p].outcome.error = Some(Unauthorized)
        /\ \E s \in proc[p].log[2].sess : MapHas(connections, PoolKey) /\ connections[PoolKey] = s

\* the Token Store holds no refresh token for u
NoRefreshToken(u) == ~MapHas(tokens, u) \/ tokens[u].refreshToken \in {None, Some("")}

\* C27: a record without a refresh token is never silently renewed: refreshToken
\* for a user whose record has no refreshToken, or who has no record, fails
\* without a request to the token endpoint and leaves the Token Store, its timers
\* and the persisted file as they are; the store-less refreshToken fails the same
\* way on an empty refresh token.
C27_NoRefreshTokenNoRenewal ==
    /\ [][\A r \in Requests, u \in StoreUsers :
             (refreshUserTokens(r, u) /\ NoRefreshToken(u)) =>
                 /\ rq'[r].pc = "done"
                 /\ rq'[r].outcome = "TOKEN_REFRESH_FAILED"
                 /\ rq'[r].ret = None
                 /\ tokens' = tokens
                 /\ refreshTimers' = refreshTimers
                 /\ tokenFile' = tokenFile]_vars
    /\ [][\A r \in Requests :
             refreshTokenDirect(r, "") =>
                 /\ rq'[r].pc = "done"
                 /\ rq'[r].outcome = "NO_REFRESH_TOKEN"
                 /\ rq'[r].ret = None]_vars
    /\ [](\A r \in Requests :
             rq[r].pc = "grant" =>
                 /\ rq[r].td # None
                 /\ The(rq[r].td).refreshToken \notin {None, Some("")})

\* C27 witness: a refresh was asked for a record that has no refresh token; it
\* failed, and the record, which carries no expiry and no timer, is still stored
C27_Witness ==
    \E r \in Requests :
        /\ rq[r].op = "refresh"
        /\ rq[r].pc = "done"
        /\ rq[r].outcome = "TOKEN_REFRESH_FAILED"
        /\ rq[r].td = None
        /\ MapHas(tokens, rq[r].user)
        /\ tokens[rq[r].user].refreshToken = None
        /\ tokenFile = saveTokensToFile(tokens)

\* this step stores a record for u
Stores(u) ==
    /\ MapHas(tokens', u)
    /\ stores' # stores \/ ~MapHas(tokens, u) \/ tokens'[u] # tokens[u]

\* a timer is armed for u
Armed(tm, u) == MapHas(tm, u) /\ tm[u].live

Persisted(td, entry) ==
    /\ entry.accessToken = td.accessToken
    /\ entry.refreshToken = td.refreshToken
    /\ entry.userId = td.userId
    /\ IF td.expiresAt = None THEN entry.expiresAt = << >>
       ELSE entry.expiresAt = <<"iso", The(td.expiresAt)>>

\* C29: after every storeToken, clearToken and cleanup (file writes succeeding),
\* tokens.json holds exactly the records held in memory, and a TokenManager
\* constructed afterwards holds the same owners with the same records, each
\* expiresAt the same instant as before.
C29_FileMirrorsStore ==
    /\ [](/\ DOMAIN tokenFile = DOMAIN tokens
          /\ \A u \in DOMAIN tokens : Persisted(tokens[u], tokenFile[u]))
    /\ [][restart => tokens' = tokens]_vars

\* C29 witness: a record whose expiry is not a whole second was stored, the
\* process restarted, and the record is held again with that expiry
C29_Witness ==
    \E u \in StoreUsers :
        /\ restarts = 1
        /\ MapHas(tokens, u)
        /\ tokens[u].expiresAt = Some(STATE_TIMEOUT_MS + TOKEN_REFRESH_BUFFER_MS + 1)
        /\ tokens[u].userId = Some(u)

\* the eviction timer armed for u, if any, is the one of the record now stored for u
TimerOfStoredRecord(u) ==
    Armed(refreshTimers, u) =>
        /\ MapHas(tokens, u)
        /\ tokens[u].expiresAt # None
        /\ refreshTimers[u].due = The(tokens[u].expiresAt) - TOKEN_REFRESH_BUFFER_MS

\* C33: an eviction timer armed when a record was stored for owner U never evicts
\* a record stored for U afterwards: every later storeToken(U, r2), whether r2
\* carries an expiresAt or not, cancels the earlier timer, so that a record stored
\* without expiry is never removed by a timer.
C33_LaterStoreCancelsTimer ==
    /\ [](\A u \in StoreUsers : TimerOfStoredRecord(u))
    /\ [][\A u \in StoreUsers : timerFires(u) => tokens[u].expiresAt # None]_vars

\* the record of u leaves the Token Store in this step
Removed(u) == MapHas(tokens, u) /\ ~MapHas(tokens', u)

\* C39: getToken(U) never modifies the Token Store: for an expired record it
\* returns null but the record stays stored (getStoredUserIds still contains U,
\* timers and the persisted file are unchanged) until clearToken,
\* clearExpiredTokens, cleanup, the eviction timer or a failed refresh removes it.
C39_GetTokenReadsOnly ==
    /\ [][\A r \in Requests, u \in StoreUsers :
             callGetToken(r, u) =>
                 /\ UNCHANGED <<tokens, refreshTimers, tokenFile>>
                 /\ (MapHas(tokens, u) /\ isTokenExpired(tokens[u], now)) =>
                       (rq'[r].ret = None /\ u \in DOMAIN tokens')]_vars
    /\ [][\A u \in StoreUsers :
             Removed(u) =>
                 \/ timerFires(u)
                 \/ clearExpiredTokens
                 \/ clearAllConnections
                 \/ \E r \in Requests, resp \in GrantResponses :
                       grantReturns(r, resp) /\ ~resp.ok]_vars

\* C39 witness: getToken found the record expired and returned null, and the very
\* record is still in the store and in the file
C39_Witness ==
    \E r \in Requests :
        /\ rq[r].op = "getToken"
        /\ rq[r].td # None
        /\ rq[r].ret = None
        /\ MapHas(tokens, rq[r].user)
        /\ tokens[rq[r].user] = The(rq[r].td)
        /\ MapHas(tokenFile, rq[r].user)

\* the refreshConnection in caller p's catch block throws in this step
RefreshFails(p) ==
    /\ proc[p].inRefresh
    /\ proc'[p].pc = "done"

OvertakenCreatorResumes(p) ==
    /\ createResumes(p)
    /\ creations[proc[p].await].cleared
    /\ creations[proc[p].await].state = "ok"

\* C34: after clearAllConnections() or clearConnection(U, mode) returns, a session
\* creation that was already in flight does not repopulate the cache: the cache
\* holds no session for the cleared key until a getConnection call issued after
\* the clear completes its own construction.
C34_ClearedStaysCleared ==
    [][\A p \in Procs :
          OvertakenCreatorResumes(p) =>
              (~MapHas(connections, PoolKey) => ~MapHas(connections', PoolKey))]_vars

\* the getConnection call of caller p throws e in this step
GetConnectionThrows(p, e) ==
    IF proc[p].op \in {"get", "refresh"} \/ proc[p].inRefresh
    THEN /\ proc'[p].pc = "done"
         /\ proc'[p].outcome = [status |-> "err", value |-> 0, error |-> Some(e)]
    ELSE /\ Len(proc'[p].log) = Len(proc[p].log) + 1
         /\ proc'[p].log[Len(proc'[p].log)] =
               [sess |-> None, err |-> Some(e), minted |-> minted, built |-> Len(creations)]

\* C35: when a session construction fails, every caller that joined that
\* in-flight creation receives the same failure, no session is cached for the
\* key, the in-flight entry is removed, and a later getConnection for the key
\* starts a new construction instead of replaying the stored failure.
C35_FailedConstructionShared ==
    /\ [][\A p \in Procs :
             ((joinResumes(p) \/ createResumes(p)) /\ creations[proc[p].await].state = "err") =>
                 GetConnectionThrows(p, The(creations[proc[p].await].err))]_vars
    /\ [][\A p \in Procs :
             (createResumes(p) /\ creations[proc[p].await].state = "err") =>
                 /\ ~MapHas(connections', PoolKey)
                 /\ ~MapHas(connectionPromises', PoolKey)
                 /\ proc'[p].pc = "done" =>
                       LET next == (getConnection(World(p)))' IN
                       /\ next.f.pc = "create"
                       /\ next.f.await = Len(creations') + 1]_vars

\* the auth modes whose constructor leaves a session obtained that way
BuiltByModes(sess) ==
    CASE sess.via = "login" -> {User_Password}
      [] sess.via = "client_credentials" -> {OAuth_2_0_Client_Credentials}
      [] sess.via \in {"refresh_grant", "cache"} -> {OAuth_2_0_Personal}
      [] sess.via = "config" -> {OAuth_2_0_Authorization_Code, OAuth_2_0_Personal}
      [] OTHER -> {}

\* C36: for every cached entry, the auth mode in its cache key equals the auth
\* mode whose constructor built the session, for every value of config.type
\* (absent included) and of SALESFORCE_CONNECTION_TYPE, so that refreshConnection
\* and clearConnection act on the key of the session in use and apply that
\* mode's refresh steps.
C36_KeyModeIsBuilderMode ==
    \A k \in DOMAIN connections :
        /\ k[2] \in BuiltByModes(connections[k])
        /\ k[2] = ConnectionTypeOf(deploy)

\* executeWithRetry callers whose first attempt met an expired-session error on
\* session s and whose retry ran, no probe of theirs having found a session stale
RetriedAfter(s) ==
    {p \in Started : /\ proc[p].op = "exec"
                     /\ Len(proc[p].log) >= 2
                     /\ proc[p].log[1].sess = Some(s)
                     /\ proc[p].log[1].err # None
                     /\ isTokenExpiredError(The(proc[p].log[1].err))
                     /\ proc[p].log[2].sess # None
                     /\ proc[p].probed # "stale"}

\* C38: when several executeWithRetry callers sharing one key each fail with an
\* expired-session error on the same stale session, the session built by the
\* first caller's refresh is not evicted by another caller's later refresh: at
\* most one new session is constructed per stale session, in every interleaving.
C38_OneRefreshPerStaleSession ==
    clears = 0 =>
        \A n \in DOMAIN creations :
            creations[n].state = "ok" =>
                \A p, q \in RetriedAfter(The(creations[n].sess)) :
                    proc[p].log[2].sess = proc[q].log[2].sess

\* the getConnection call of caller p returns session s in this step
GetConnectionReturns(p, s) ==
    IF proc[p].op \in {"get", "refresh"}
    THEN /\ proc'[p].pc = "done"
         /\ proc'[p].outcome = [status |-> "ok", value |-> s.token, error |-> None]
    ELSE IF proc[p].inRefresh
    THEN /\ ~proc'[p].inRefresh
         /\ proc'[p].attempt = proc[p].attempt + 1
    ELSE /\ proc'[p].pc = "op"
         /\ proc'[p].sess = Some(s)

\* C40: every getConnection call that joins an in-flight creation eventually
\* settles, resolving with the created session or rejecting with the creation's
\* error, once that creation settles, even if clearAllConnections, clearConnection
\* or another caller's refreshConnection intervenes; and executeWithRetry always
\* terminates after at most maxRetries + 1 operation invocations, provided each
\* construction, probe and operation call settles.
C40_JoinersSettle ==
    /\ \A p \in Procs : (proc[p].pc = "join") ~> (proc[p].pc # "join")
    /\ [][\A p \in Procs :
             joinResumes(p) =>
                 LET c == creations[proc[p].await] IN
                 IF c.state = "ok" THEN GetConnectionReturns(p, The(c.sess))
                 ELSE GetConnectionThrows(p, The(c.err))]_vars
    /\ \A p \in Procs : (proc[p].op = "exec") ~> (proc[p].pc = "done")
    /\ [](\A p \in Procs : Invocations(proc[p]) <= proc[p].maxRetries + 1)

\* C40 witness: a caller that joined another caller's creation, over which the
\* cache was cleared, resolved with the session that creation built
C40_Witness ==
    \E p \in Started, n \in DOMAIN creations :
        /\ proc[p].op = "get"
        /\ proc[p].probed = "no"
        /\ proc[p].pc = "done"
        /\ creations[n].by \in Started \ {p}
        /\ creations[n].cleared
        /\ creations[n].state = "ok"
        /\ proc[p].outcome = [status |-> "ok", value |-> The(creations[n].sess).token,
                              error |-> None]

(* ======================================================================= *)
(*                  Properties of the error classifier                     *)
(* ======================================================================= *)

SessionPhrases ==
    {"session expired", "invalid session", "authentication failure", "session not found"}

\* the error carries one of the marks of an invalid session that the
\* classifier is documented to recognise
Recognized(e) ==
    /\ e # Null
    /\ \/ e.errorCode = "INVALID_SESSION_ID"
       \/ e.errorCode = "SESSION_NOT_FOUND"
       \/ e.errorCode = "INVALID_SESSION"
       \/ e.name = "INVALID_SESSION_ID"
       \/ 401 \in {e.statusCode, e.status}
       \/ \E i \in DOMAIN e.message : ToLowerCase(e.message[i]) \in SessionPhrases

\* a ConnectionError whose code says the token or the session expired
CodedExpired(e) ==
    /\ e # Null
    /\ e.name = "ConnectionError"
    /\ e.code \in {"TOKEN_EXPIRED", "SESSION_EXPIRED"}

\* C21 (as stated): isTokenExpiredError(err) is true exactly when err carries a
\* recognized session-invalid code, an HTTP 401 or session-expiry phrasing in its
\* message; it is false for null/undefined and for every other error, including
\* a ConnectionError with code TOKEN_EXPIRED or SESSION_EXPIRED.
C21_ExpiredSessionExactly ==
    Handled("isTokenExpiredError") =>
        /\ eh.answer <=> Recognized(eh.error)
        /\ eh.error = Null => ~eh.answer
        /\ CodedExpired(eh.error) => ~eh.answer

\* C21 (amended): the same equivalence; the code property is not read, so a
\* ConnectionError with code TOKEN_EXPIRED or SESSION_EXPIRED is classified by its
\* message alone: 'Token is expired' is not an expired session, handleConnectionError's
\* own 'Session expired. Please re-authenticate.' is.
C21_CodeNotRead ==
    Handled("isTokenExpiredError") =>
        /\ eh.answer <=> Recognized(eh.error)
        /\ eh.error = Null => ~eh.answer
        /\ CodedExpired(eh.error) =>
              (eh.answer <=>
                  \E i \in DOMAIN eh.error.message :
                      ToLowerCase(eh.error.message[i]) \in SessionPhrases)
        /\ eh.error = TokenExpired => ~eh.answer
        /\ eh.error = SessionExpired => eh.answer

\* C21 witness: the SESSION_EXPIRED error of handleConnectionError was classified,
\* and classified as an expired session
C21_Witness ==
    /\ Handled("isTokenExpiredError")
    /\ eh.error = SessionExpired
    /\ eh.answer

\* the provider error codes of an OAuth failure
ProviderCodes == {"invalid_grant", "invalid_client", "access_denied"}

\* the error carries one of them, in its error property or in its message, or
\* its message speaks of oauth
OAuthMarked(e) ==
    /\ e # Null
    /\ \/ e.error \in ProviderCodes
       \/ \E i \in DOMAIN e.message :
             ToLowerCase(e.message[i]) \in ProviderCodes \cup {"oauth"}

\* C22: isOAuthError(err) is true for every error whose provider error code is
\* invalid_grant, invalid_client or access_denied (carried in err.error or in the
\* message) and for every error whose message contains 'oauth' (case-insensitive),
\* and false for every other error.
C22_OAuthErrorExactly ==
    Handled("isOAuthError") => (eh.answer <=> OAuthMarked(eh.error))

\* a network-level error, a timeout, a 5xx or a 429 response
Transient(e) ==
    \/ e.errorCode \in {"NETWORK_ERROR", "TIMEOUT", "SERVER_UNAVAILABLE",
                        "SERVICE_UNAVAILABLE", "TOO_MANY_REQUESTS"}
    \/ \E i \in DOMAIN e.message : e.message[i] \in {"network", "timeout"}
    \/ e.statusCode \in 500..599
    \/ e.statusCode = 429

ValidationFailure(e) == e.name = "ValidationError" \/ e.errorCode = "VALIDATION_ERROR"

AuthenticationFailure(e) == isTokenExpiredError(e) \/ isOAuthError(e)

\* C23: shouldRetryOperation(err) is false for every validation error and for
\* every error that isTokenExpiredError or isOAuthError classifies as true, and
\* true for the network-level errors, timeouts, 5xx and 429 responses among the
\* others.
C23_RetryTransientOnly ==
    (eh.op = "shouldRetryOperation" /\ eh.pc = "returned") =>
        IF ValidationFailure(eh.error) \/ AuthenticationFailure(eh.error)
        THEN ~eh.answer
        ELSE Transient(eh.error) => eh.answer

\* both classifiers answer true for the error
DoublyClassified(e) == isTokenExpiredError(e) /\ isOAuthError(e)

ExpiredText == <<"Your Salesforce session has expired. Please re-authenticate to continue.">>

\* C24: the consumers of the classifier check expired-session first, then
\* oauth-error, then transient: an error that both isTokenExpiredError and
\* isOAuthError classify is handled as an expired session by handleConnectionError
\* (refresh and retry, SESSION_EXPIRED or TOKEN_REFRESH_FAILED, never OAUTH_ERROR)
\* and by formatAuthenticationError, and shouldRetryOperation never retries it; an
\* error only isOAuthError classifies ends handleConnectionError with OAUTH_ERROR.
C24_ExpiredSessionFirst ==
    /\ (eh.op = "handleConnectionError" /\ DoublyClassified(eh.error)) =>
          /\ eh.pc \in {"refreshing", "retrying", "returned", "threw"}
          /\ eh.pc = "threw" =>
                /\ eh.thrown \in {SessionExpired, SessionRefreshFailed}
                /\ eh.thrown.code # "OAUTH_ERROR"
                /\ eh.thrown = SessionExpired <=> eh.maxRetries = 0
    /\ (Handled("handleConnectionError") /\ isOAuthError(eh.error)
            /\ ~isTokenExpiredError(eh.error)) =>
          eh.pc = "threw" /\ eh.thrown = OAuthFailed
    /\ (Handled("formatAuthenticationError") /\ DoublyClassified(eh.error)) =>
          eh.pc = "returned" /\ eh.text = ExpiredText
    /\ (Handled("shouldRetryOperation") /\ DoublyClassified(eh.error)) =>
          eh.pc = "returned" /\ ~eh.answer

\* C24 witness: a 401 whose message names invalid_grant went through
\* handleConnectionError without a retry left and came out as SESSION_EXPIRED
C24_Witness ==
    /\ Handled("handleConnectionError")
    /\ DoublyClassified(eh.error)
    /\ eh.error.statusCode = 401
    /\ Includes(eh.error.message, "invalid_grant")
    /\ eh.maxRetries = 0
    /\ eh.thrown = SessionExpired

(* ======================================================================= *)
(*                   Properties of the session cache                       *)
(* ======================================================================= *)

\* caller p was handed a session by getConnection and its operation succeeded on it
RanOn(p) ==
    /\ proc[p].pc = "done"
    /\ Len(proc[p].log) = 1
    /\ proc[p].log[1].err = None

\* C25: in every auth mode, the pass-through of a caller's own access token
\* included, a session built by getConnection is cached under its key: a second
\* getConnection with the same arguments, made after the first returned and while
\* the session is valid (no probe says otherwise), returns the same session and
\* constructs nothing.
C25_BuiltSessionCached ==
    (RanOn(1) /\ RanOn(2) /\ ~proc[2].conc /\ proc[2].probed # "stale") =>
        /\ proc[2].log[1].sess = proc[1].log[1].sess
        /\ proc[2].log[1].built = proc[1].log[1].built

\* the record the Token Store holds for the callers' user is past its horizon
LocallyExpired ==
    /\ MapHas(tokens, EffectiveUserId(PoolUser))
    /\ tokens[EffectiveUserId(PoolUser)].expiresAt # None
    /\ now >= The(tokens[EffectiveUserId(PoolUser)].expiresAt) - TOKEN_REFRESH_BUFFER_MS

====
